---- MODULE Spec2Model ----
(***************************************************************************)
(* blockscout-vc sidecar: the change-to-restart reconciliation pipeline.   *)
(*                                                                         *)
(* Part I  - the restart worker (package worker): AddJob, process,         *)
(*           cleanupJob, makeKey, as goroutines interleaving at their      *)
(*           blocking points (mutex, channel send/receive, select).        *)
(* Part II - the config mutator (package env, package docker) and the      *)
(*           handlers (package handlers) with the handler pipeline         *)
(*           (PostgresChanges.HandleMessage).                              *)
(* Part III - Subscription.Subscribe: the initial check, the listener      *)
(*           goroutine and the join message.                               *)
(***************************************************************************)
EXTENDS Integers, Sequences, FiniteSets, TLC

(***************************************************************************)
(* Bounds of the model.                                                    *)
(***************************************************************************)
\* number of goroutines that call Worker.AddJob concurrently
NumSubmitters == 2
\* capacity of the jobs channel in the model (the program uses JobBuffer)
QueueCap == 2
\* total number of AddJob calls in one behaviour
MaxCalls == 4
\* viper "recreationDelay", in ticks of the clock
RecreationDelay == 1

\* make(chan Job, 100)
JobBuffer == 100

(***************************************************************************)
(* Part I: the restart worker                                              *)
(***************************************************************************)
VARIABLES
    jobs,        \* w.jobs: the buffered channel, a FIFO of Job
    jobSet,      \* w.jobSet: the set of keys
    jobSetMux,   \* w.jobSetMux: the set of goroutines holding it (none or one)
    spc,         \* per submitter: where its AddJob call stands
    sjob,        \* per submitter: the Job of its AddJob call
    wpc,         \* the worker goroutine: where Start/process stands
    wjob,        \* the job the worker took from the channel
    cancelled,   \* ctx.Done() is closed
    active,      \* number of RecreateContainers calls that have not returned
    started,     \* ids of the jobs whose recreation has begun
    nextId,      \* id the next accepted job gets (order of acceptance)
    calls,       \* number of AddJob calls made so far
    dirty,       \* containers whose configuration was written after the
                 \* start of their last recreation
    outcome,     \* how the last RecreateContainers call returned
    waited       \* ticks the worker has waited since that return

\* the history of the last recreation
timeVars == <<outcome, waited>>

workerVars == <<jobs, jobSet, jobSetMux, spc, sjob, wpc, wjob, cancelled,
                active, started, nextId, calls, dirty, timeVars>>

\* the variables of Part II (the config mutator and the handlers)
VARIABLES
    envFile,       \* the env file on disk: a sequence of lines
    composeFile,   \* the compose file on disk: services.<name>.environment
    envMem,        \* Env.EnvFile of the Env a direct caller keeps
    pathToEnvFile, \* viper "pathToEnvFile": "" or the path
    proxyServiceName,   \* viper "proxyServiceName"
    proxyContainerName, \* viper "proxyContainerName"
    last           \* what the last operation did (see NoOp)

pipeVars == <<envFile, composeFile, envMem, pathToEnvFile, proxyServiceName,
              proxyContainerName, last>>

\* the variables of Subscription.Subscribe and of its listener goroutine
VARIABLES
    subPc,       \* Subscribe: index of its next step in SubscribeSteps
    subRet,      \* Subscribe: "none" while it runs, "nil" or "error" once it
                 \* has returned, "exit" once the process has exited
    checkPc,     \* InitialCheck: "idle", "rows" (iterating), "done"
    rows,        \* InitialCheck: the rows not yet scanned
    listening,   \* the goroutine that reads the WebSocket messages runs
    log,         \* the kinds of event so far, in the order of their first
                 \* occurrence: "initial", "loop", "join", "live",
                 \* "decode error", "read error"
    checkErr,    \* the error InitialCheck returned ("none": no error)
    received     \* the listener: <<m>>, m the message it read last (<<>>:
                 \* none so far)

\* the goroutines of the sidecar that share the connection and the files
VARIABLES
    hpc,         \* where the goroutine "main" (InitialCheck) and the
                 \* goroutine "listener" are in HandleMessage: "idle"
                 \* (outside), "run" (the handlers run), "writing" (the env
                 \* file is created and not yet flushed), "submit" (before
                 \* AddJob), "addjob" (inside AddJob)
    sent,        \* the change events the server has sent on the connection
    nread,       \* how many of them ReadMessage has returned
    handled,     \* the records of the live events handed to HandleMessage
    connWriters  \* the goroutines inside a WriteJSON on the connection

concVars == <<hpc, sent, nread, handled, connWriters>>

subVars == <<subPc, subRet, checkPc, rows, listening, log, checkErr,
             received, concVars>>

vars == <<workerVars, pipeVars, subVars>>

Submitters == 1..NumSubmitters

\* the configured container names, in the order sort.Strings gives them
SortedNames == <<"backend", "frontend", "proxy", "stats">>

\* the container lists the submitters pass to AddJob
JobInputs ==
    { <<>>,
      <<"backend">>,
      <<"backend", "frontend", "backend">>,
      <<"stats">>,
      <<"proxy">> }

NoJob == [id |-> 0, containers |-> <<>>]

Range(s) == {s[i] : i \in 1..Len(s)}

\* Docker.UniqueContainers: one container per name
UniqueContainers(containers) == Range(containers)

\* Docker.GetContainerNames: the names, sorted
GetContainerNames(unique) ==
    SelectSeq(SortedNames, LAMBDA n : n \in unique)

RECURSIVE Join(_, _)
\* strings.Join
Join(names, sep) ==
    IF names = <<>> THEN ""
    ELSE IF Len(names) = 1 THEN names[1]
    ELSE names[1] \o sep \o Join(Tail(names), sep)

\* (mutant) a key made of the first container name only
makeKeyFirst(containers) ==
    Join(SubSeq(GetContainerNames(UniqueContainers(containers)), 1, 1), ",")

\* (mutant) a key made of the names as they come: not deduplicated, not
\* sorted
makeKeyAsGiven(containers) == Join(containers, ",")

\* Worker.makeKey
makeKey(containers) ==
    Join(GetContainerNames(UniqueContainers(containers)), ",")

----------------------------------------------------------------------------
\* Worker.AddJob, called by submitter s with `containers`.  The caller (the
\* handler pipeline) has written the configuration of these containers
\* before the call.
AddJobEnter(s, containers) ==
    /\ spc[s] = "idle"
    /\ calls < MaxCalls
    /\ calls' = calls + 1
    /\ dirty' = dirty \cup Range(containers)
    /\ IF Len(containers) = 0
         THEN \* return false
              UNCHANGED <<spc, sjob>>
         ELSE /\ spc' = [spc EXCEPT ![s] = "lock"]
              /\ sjob' = [sjob EXCEPT ![s] = [id |-> 0, containers |-> containers]]
    /\ UNCHANGED <<jobs, jobSet, jobSetMux, wpc, wjob, cancelled, active,
                   started, nextId>>
    /\ UNCHANGED pipeVars
    /\ UNCHANGED timeVars

\* Worker.AddJob, called by a submitter that does nothing else
AddJobCall(s, containers) ==
    /\ AddJobEnter(s, containers)
    /\ UNCHANGED subVars

\* (mutant) a Lock that excludes nobody
AddJobLockNoExclusion(s) ==
    /\ spc[s] = "lock"
    /\ jobSetMux' = {s}
    /\ spc' = [spc EXCEPT ![s] = "check"]
    /\ UNCHANGED <<jobs, jobSet, sjob, wpc, wjob, cancelled, active, started,
                   nextId, calls, dirty>>
    /\ UNCHANGED pipeVars
    /\ UNCHANGED subVars
    /\ UNCHANGED timeVars

\* w.jobSetMux.Lock()
AddJobLock(s) ==
    /\ spc[s] = "lock"
    /\ jobSetMux = {}
    /\ jobSetMux' = {s}
    /\ spc' = [spc EXCEPT ![s] = "check"]
    /\ UNCHANGED <<jobs, jobSet, sjob, wpc, wjob, cancelled, active, started,
                   nextId, calls, dirty>>
    /\ UNCHANGED pipeVars
    /\ UNCHANGED subVars
    /\ UNCHANGED timeVars

\* key := w.makeKey(containers); if _, exists := w.jobSet[key]; exists
\* { return false }
AddJobCheck(s) ==
    /\ spc[s] = "check"
    /\ LET key == makeKey(sjob[s].containers) IN
       IF key \in jobSet
         THEN \* return false (deferred Unlock)
              /\ jobSetMux' = {}
              /\ spc' = [spc EXCEPT ![s] = "idle"]
              /\ sjob' = [sjob EXCEPT ![s] = NoJob]
         ELSE /\ spc' = [spc EXCEPT ![s] = "insert"]
              /\ UNCHANGED <<jobSetMux, sjob>>
    /\ UNCHANGED <<jobs, jobSet, nextId, wpc, wjob, cancelled, active,
                   started, calls, dirty>>
    /\ UNCHANGED pipeVars
    /\ UNCHANGED subVars
    /\ UNCHANGED timeVars

\* (mutant) a send that never blocks
CanSendAlways(q) == TRUE

\* a send to the buffered channel proceeds when the buffer has room
CanSend(q) == Len(q) < QueueCap

\* w.jobSet[key] = struct{}{}: the job is accepted; then w.jobs <- Job{...}
\* if the buffer has room (the mutex is held: no other goroutine reads the
\* key set between the insert and the send), return true
AddJobInsert(s) ==
    /\ spc[s] = "insert"
    /\ jobSet' = jobSet \cup {makeKey(sjob[s].containers)}
    /\ nextId' = nextId + 1
    /\ IF CanSend(jobs)
         THEN /\ jobs' = Append(jobs, [sjob[s] EXCEPT !.id = nextId])
              /\ jobSetMux' = {}
              /\ spc' = [spc EXCEPT ![s] = "idle"]
              /\ sjob' = [sjob EXCEPT ![s] = NoJob]
         ELSE /\ sjob' = [sjob EXCEPT ![s].id = nextId]
              /\ spc' = [spc EXCEPT ![s] = "send"]
              /\ UNCHANGED <<jobs, jobSetMux>>
    /\ UNCHANGED <<wpc, wjob, cancelled, active, started, calls, dirty>>
    /\ UNCHANGED pipeVars
    /\ UNCHANGED subVars
    /\ UNCHANGED timeVars

\* w.jobs <- Job{...} of a call that found the channel full and waited;
\* return true
AddJobSend(s) ==
    /\ spc[s] = "send"
    /\ CanSend(jobs)
    /\ jobs' = Append(jobs, sjob[s])
    /\ jobSetMux' = {}
    /\ spc' = [spc EXCEPT ![s] = "idle"]
    /\ sjob' = [sjob EXCEPT ![s] = NoJob]
    /\ UNCHANGED <<jobSet, wpc, wjob, cancelled, active, started, nextId,
                   calls, dirty>>
    /\ UNCHANGED pipeVars
    /\ UNCHANGED subVars
    /\ UNCHANGED timeVars

----------------------------------------------------------------------------
\* Worker.Start: the initial delay, then process(ctx)
WorkerStart ==
    /\ wpc = "start"
    /\ \/ wpc' = "select"
       \/ cancelled /\ wpc' = "done"
    /\ UNCHANGED <<jobs, jobSet, jobSetMux, spc, sjob, wjob, cancelled,
                   active, started, nextId, calls, dirty>>
    /\ UNCHANGED pipeVars
    /\ UNCHANGED subVars
    /\ UNCHANGED timeVars

\* (mutant) the recreation runs in a goroutine of its own: the loop is back
\* at its select while RecreateContainers has not returned
AtSelectAsync == wpc \in {"select", "recreate"}

\* the worker is at the select of the processing loop
AtSelect == wpc = "select"

\* (mutant) a receive that yields the job sent last
ReceiveLast(q) == q[Len(q)]

\* the job a receive from the channel yields
Receive(q) == Head(q)

\* process: case job := <-w.jobs; RecreateContainers(job.Containers) begins
ProcessReceive ==
    /\ AtSelect
    /\ jobs # <<>>
    /\ LET job == Receive(jobs) IN
       /\ wjob' = job
       /\ jobs' = SelectSeq(jobs, LAMBDA j : j # job)
       /\ started' = started \cup {job.id}
       /\ dirty' = dirty \ Range(job.containers)
    /\ active' = active + 1
    /\ wpc' = "recreate"
    /\ UNCHANGED <<jobSet, jobSetMux, spc, sjob, cancelled, nextId, calls>>
    /\ UNCHANGED pipeVars
    /\ UNCHANGED subVars
    /\ UNCHANGED timeVars

\* process: case <-ctx.Done(): return
ProcessCtxDone ==
    /\ wpc = "select"
    /\ cancelled
    /\ wpc' = "done"
    /\ UNCHANGED <<jobs, jobSet, jobSetMux, spc, sjob, wjob, cancelled,
                   active, started, nextId, calls, dirty>>
    /\ UNCHANGED pipeVars
    /\ UNCHANGED subVars
    /\ UNCHANGED timeVars

\* RecreateContainers returns, with an error or without
RecreateReturn(err) ==
    /\ UNCHANGED pipeVars
    /\ UNCHANGED subVars
    /\ wpc = "recreate"
    /\ active' = active - 1
    /\ wpc' = IF err THEN "failed" ELSE "cleanup"
    /\ outcome' = IF err THEN "failed" ELSE "ok"
    /\ waited' = 0
    /\ UNCHANGED <<jobs, jobSet, jobSetMux, spc, sjob, wjob, cancelled,
                   started, nextId, calls, dirty>>

\* Worker.cleanupJob
cleanupJob(jobKey) ==
    /\ jobSetMux = {}
    /\ jobSet' = jobSet \ {jobKey}
    /\ UNCHANGED jobSetMux

\* (mutant) a process that leaves the key to the deferred cleanup alone
ProcessCleanupDeferredOnly ==
    /\ wpc = "cleanup"
    /\ wpc' = "settle"
    /\ UNCHANGED <<jobs, jobSet, jobSetMux, spc, sjob, wjob, cancelled,
                   active, started, nextId, calls, dirty>>
    /\ UNCHANGED pipeVars
    /\ UNCHANGED subVars
    /\ UNCHANGED timeVars

\* process: w.cleanupJob(jobKey) right after a successful recreation
ProcessCleanup ==
    /\ wpc = "cleanup"
    /\ cleanupJob(makeKey(wjob.containers))
    /\ wpc' = "settle"
    /\ UNCHANGED <<jobs, spc, sjob, wjob, cancelled, active, started, nextId,
                   calls, dirty>>
    /\ UNCHANGED pipeVars
    /\ UNCHANGED subVars
    /\ UNCHANGED timeVars

\* the clock ticks while the worker waits on time.After(delay)
Tick ==
    /\ UNCHANGED pipeVars
    /\ UNCHANGED subVars
    /\ wpc = "settle"
    /\ waited < RecreationDelay
    /\ waited' = waited + 1
    /\ UNCHANGED <<jobs, jobSet, jobSetMux, spc, sjob, wpc, wjob, cancelled,
                   active, started, nextId, calls, dirty, outcome>>

\* (mutant) a settle select that is ready at once
SettleOverAtOnce == TRUE

\* a case of the settle select is ready: ctx.Done() is closed, or the timer
\* of time.After(delay) has fired
SettleOver == cancelled \/ waited = RecreationDelay

\* process: the settle delay, select { <-ctx.Done(): return; <-time.After }
ProcessSettle ==
    /\ wpc = "settle"
    /\ SettleOver
    /\ wpc' = "deferred"
    /\ UNCHANGED <<jobs, jobSet, jobSetMux, spc, sjob, wjob, cancelled,
                   active, started, nextId, calls, dirty>>
    /\ UNCHANGED pipeVars
    /\ UNCHANGED subVars
    /\ UNCHANGED timeVars

\* (mutant) a process that goes to its next iteration without cleanupJob
ProcessDeferredNoCleanup ==
    /\ wpc \in {"failed", "deferred"}
    /\ wpc' = "select"
    /\ wjob' = NoJob
    /\ UNCHANGED <<jobs, jobSet, jobSetMux, spc, sjob, cancelled, active,
                   started, nextId, calls, dirty>>
    /\ UNCHANGED pipeVars
    /\ UNCHANGED subVars
    /\ UNCHANGED timeVars

\* process: defer w.cleanupJob(jobKey) as the closure returns (after an error
\* of RecreateContainers, or after the settle delay), then the next iteration
ProcessDeferred ==
    /\ wpc \in {"failed", "deferred"}
    /\ cleanupJob(makeKey(wjob.containers))
    /\ wpc' = "select"
    /\ wjob' = NoJob
    /\ UNCHANGED <<jobs, spc, sjob, cancelled, active, started, nextId,
                   calls, dirty>>
    /\ UNCHANGED pipeVars
    /\ UNCHANGED subVars
    /\ UNCHANGED timeVars

\* cancel() of the worker's context
Cancel ==
    /\ ~cancelled
    /\ cancelled' = TRUE
    /\ UNCHANGED <<jobs, jobSet, jobSetMux, spc, sjob, wpc, wjob, active,
                   started, nextId, calls, dirty>>
    /\ UNCHANGED pipeVars
    /\ UNCHANGED subVars
    /\ UNCHANGED timeVars

WorkerStep ==
    \/ WorkerStart
    \/ ProcessReceive
    \/ ProcessCtxDone
    \/ \E err \in BOOLEAN : RecreateReturn(err)
    \/ ProcessCleanup
    \/ Tick
    \/ ProcessSettle
    \/ ProcessDeferred

SubmitterStep ==
    \E s \in Submitters :
        \/ \E containers \in JobInputs : AddJobCall(s, containers)
        \/ AddJobLock(s)
        \/ AddJobCheck(s)
        \/ AddJobInsert(s)
        \/ AddJobSend(s)

Next == WorkerStep \/ SubmitterStep \/ Cancel

\* container lists passed to AddJob by the submitters: two with the same
\* names, in another order and repeated, and one with other names
KeyInputs ==
    { <<"backend", "frontend">>,
      <<"frontend", "backend", "frontend">>,
      <<"frontend">> }

KeyNext ==
    \/ WorkerStep
    \/ \E s \in Submitters :
          \/ \E containers \in KeyInputs : AddJobCall(s, containers)
          \/ AddJobLock(s)
          \/ AddJobCheck(s)
          \/ AddJobInsert(s)
          \/ AddJobSend(s)
    \/ Cancel


(***************************************************************************)
(* Part II: the config mutator                                             *)
(*                                                                         *)
(* A string is a sequence of tokens.  The characters the code looks at     *)
(* (space, tab, quotes, "=", "#", ":", "/") are tokens of their own; any   *)
(* other token stands for the run of ordinary characters it spells.        *)
(***************************************************************************)

RECURSIVE TrimLeft(_, _)
\* strings.TrimLeft
TrimLeft(s, cutset) ==
    IF s # <<>> /\ s[1] \in cutset THEN TrimLeft(Tail(s), cutset) ELSE s

RECURSIVE TrimRight(_, _)
\* strings.TrimRight
TrimRight(s, cutset) ==
    IF s # <<>> /\ s[Len(s)] \in cutset
      THEN TrimRight(SubSeq(s, 1, Len(s) - 1), cutset)
      ELSE s

\* strings.Trim
Trim(s, cutset) == TrimRight(TrimLeft(s, cutset), cutset)

\* strings.TrimSpace
TrimSpace(s) == Trim(s, {" ", "\t"})

\* strings.Contains, for a one-character substring
Contains(s, c) == \E i \in 1..Len(s) : s[i] = c

\* strings.Index, for a one-character substring (0: not found)
IndexOf(s, c) ==
    IF Contains(s, c)
      THEN CHOOSE i \in 1..Len(s) : s[i] = c /\ \A j \in 1..(i - 1) : s[j] # c
      ELSE 0

\* a string is a sequence of tokens; a token is a run of ASCII characters or
\* the name of one rune outside ASCII.  The runes outside ASCII, with the
\* number of bytes of their UTF-8 encoding
RuneBytes == ("U+20BF" :> 3)

RECURSIVE StrLen(_)
\* len(string): the number of bytes
StrLen(s) ==
    IF s = <<>> THEN 0
    ELSE (IF s[1] \in DOMAIN RuneBytes THEN RuneBytes[s[1]] ELSE Len(s[1]))
         + StrLen(Tail(s))

RECURSIVE RuneCount(_)
\* the number of characters of a string (utf8.RuneCountInString)
RuneCount(s) ==
    IF s = <<>> THEN 0
    ELSE (IF s[1] \in DOMAIN RuneBytes THEN 1 ELSE Len(s[1]))
         + RuneCount(Tail(s))

\* the empty map
EmptyMap == [k \in {} |-> <<>>]

\* m with the entries of u put over it
Put(m, u) == u @@ m

\* the keys of the env file and of the services' environment, in the order
\* sort.Strings gives them
SortedKeys ==
    << "BLOCKSCOUT_HOST",
       "BLOCKSCOUT_HTTP_PROTOCOL",
       "COIN",
       "EXPLORER_URL",
       "MICROSERVICE_VISUALIZE_SOL2UML_URL",
       "NEXT_PUBLIC_API_HOST",
       "NEXT_PUBLIC_APP_HOST",
       "NEXT_PUBLIC_FEATURED_NETWORKS",
       "NEXT_PUBLIC_NETWORK_CURRENCY_SYMBOL",
       "NEXT_PUBLIC_NETWORK_ICON",
       "NEXT_PUBLIC_NETWORK_LOGO",
       "NEXT_PUBLIC_NETWORK_LOGO_DARK",
       "NEXT_PUBLIC_NETWORK_NAME",
       "NEXT_PUBLIC_NETWORK_SHORT_NAME",
       "NEXT_PUBLIC_STATS_API_HOST",
       "NEXT_PUBLIC_VISUALIZE_API_HOST",
       "STATS_CHARTS__TEMPLATE_VALUES__NATIVE_COIN_SYMBOL",
       "STATS__BLOCKSCOUT_API_URL" >>

\* strings.SplitN(line, "=", 2) of a trimmed line, then the trimming of the
\* two parts: [ok, key, value]
SplitLine(line) ==
    IF line = <<>> \/ line[1] = "#" \/ ~Contains(line, "=")
      THEN [ok |-> FALSE, key |-> "", value |-> <<>>]
      ELSE CHOOSE l \in
             { [ok |-> TRUE,
                key |-> IF TrimSpace(SubSeq(line, 1, eq - 1)) = <<>> THEN ""
                        ELSE TrimSpace(SubSeq(line, 1, eq - 1))[1],
                value |-> Trim(TrimSpace(SubSeq(line, eq + 1, Len(line))),
                               {"\"", "'"})]
               : eq \in {IndexOf(line, "=")} } : TRUE

\* ReadEnvFile: the lines of the file parsed, in order
ParseLines(file) ==
    SubSeq([i \in 1..Len(file) |-> SplitLine(TrimSpace(file[i]))],
           1, Len(file))

\* ReadEnvFile: the last of the parsed lines that sets key k
LastSetting(lines, k) ==
    lines[CHOOSE i \in 1..Len(lines) :
            /\ lines[i].ok /\ lines[i].key = k
            /\ \A j \in (i + 1)..Len(lines) :
                  ~(lines[j].ok /\ lines[j].key = k)]

\* ReadEnvFile: e.EnvFile after the loop has put the parsed lines into it in
\* order: a key a line sets holds the value of the last line that sets it
ReadLines(mem, lines) ==
    [k \in {lines[i].key : i \in {j \in 1..Len(lines) : lines[j].ok}} |->
        LastSetting(lines, k).value] @@ mem

\* Env.ReadEnvFile
ReadEnvFile(mem, file) == ReadLines(mem, ParseLines(file))

\* Env.WriteEnvFile, one line
FormatLine(key, value) ==
    <<key, "=">> \o (IF Contains(value, " ")
                       THEN <<"\"">> \o value \o <<"\"">>
                       ELSE value)

\* Env.WriteEnvFile: the loop over the sorted keys
WriteLines(mem, keys) ==
    SubSeq([i \in 1..Len(keys) |-> FormatLine(keys[i], mem[keys[i]])],
           1, Len(keys))

\* Env.WriteEnvFile: the file holding e.EnvFile, keys sorted
WriteEnvFile(mem) ==
    WriteLines(mem, SelectSeq(SortedKeys, LAMBDA k : k \in DOMAIN mem))

\* the keys of `updates` that are absent from m or hold another value
Differing(m, updates) ==
    {k \in DOMAIN updates : k \notin DOMAIN m \/ m[k] # updates[k]}

\* Env.UpdateEnvVars after its ReadEnvFile has given the map m1
CompareAndWrite(m1, file, updates) ==
    IF Differing(m1, updates) # {}
      THEN [mem |-> Put(m1, updates), file |-> WriteEnvFile(Put(m1, updates)),
            updated |-> TRUE, writes |-> 1, err |-> FALSE]
      ELSE [mem |-> Put(m1, updates), file |-> file,
            updated |-> FALSE, writes |-> 0, err |-> FALSE]

\* Env.UpdateEnvVars on the Env whose map is `mem`; os.Open of an empty
\* path fails: [mem, file, updated, writes, err]
UpdateEnvVars(mem, file, path, updates) ==
    IF path = ""
      THEN [mem |-> mem, file |-> file, updated |-> FALSE, writes |-> 0,
            err |-> TRUE]
      ELSE CompareAndWrite(ReadEnvFile(mem, file), file, updates)

\* Docker.UpdateServiceEnv on the compose document read from the file:
\* [compose, updated, err]
DockerUpdateServiceEnv(compose, serviceName, env) ==
    IF serviceName \notin DOMAIN compose
      THEN [compose |-> compose, updated |-> FALSE, err |-> TRUE]
      ELSE [compose |-> [compose EXCEPT ![serviceName] = Put(@, env)],
            updated |-> Differing(compose[serviceName], env) # {},
            err |-> FALSE]

\* what a mutator call leaves: the two files, the Env's map, the flag and
\* the number of times a file was written
Outcome(env, compose, mem, updated, writes, err) ==
    [envFile |-> env, composeFile |-> compose, envMem |-> mem,
     updated |-> updated, writes |-> writes, err |-> err]

\* BaseHandler.UpdateServiceEnv, compose-file backing: what follows
\* docker.UpdateServiceEnv with outcome r
ComposeOutcome(env, compose, mem, r) ==
    IF r.err
      THEN Outcome(env, compose, mem, FALSE, 0, TRUE)
      ELSE Outcome(env, IF r.updated THEN r.compose ELSE compose, mem,
                   r.updated, IF r.updated THEN 1 ELSE 0, FALSE)

\* BaseHandler.UpdateServiceEnv, env-file backing: what follows
\* env.UpdateEnvVars with outcome r
EnvOutcome(compose, r) ==
    Outcome(IF r.updated THEN WriteEnvFile(r.mem) ELSE r.file,
            compose, r.mem, r.updated,
            IF r.updated THEN r.writes + 1 ELSE r.writes, FALSE)

\* BaseHandler.UpdateServiceEnv
UpdateServiceEnv(env, compose, mem, path, serviceName, envVars) ==
    IF path = ""
      THEN ComposeOutcome(env, compose, mem,
                          DockerUpdateServiceEnv(compose, serviceName,
                                                 envVars))
      ELSE EnvOutcome(compose,
                      UpdateEnvVars(ReadEnvFile(mem, env), env, path,
                                    envVars))

\* the outcome of a batch update whose Env.UpdateEnvVars gave r
BatchOutcome(compose, r) ==
    Outcome(r.file, compose, r.mem, r.updated, r.writes, r.err)

\* BaseHandler.UpdateEnvFile: the batch applied to the env file
UpdateEnvFile(env, compose, mem, path, envVars) ==
    BatchOutcome(compose, UpdateEnvVars(mem, env, path, envVars))

\* applyAndUpdateEachServiceUsingCompose, one update u whose
\* UpdateServiceEnv gave r: the document and the containers after it
ApplyOne(u, r, containers) ==
    [compose |-> r.compose,
     containers |-> IF r.updated
                      THEN Append(containers,
                                  [Name |-> u.ContainerName,
                                   ServiceName |-> u.ServiceName])
                      ELSE containers,
     err |-> r.err]

RECURSIVE ApplyEach(_)
\* applyAndUpdateEachServiceUsingCompose, the loop over the updates left in
\* st: [compose, containers, err, updates]
ApplyEach(st) ==
    IF st.err \/ st.updates = <<>> THEN st
    ELSE ApplyEach(
           [updates |-> Tail(st.updates)] @@
           ApplyOne(st.updates[1],
                    DockerUpdateServiceEnv(st.compose,
                                           st.updates[1].ServiceName,
                                           (st.updates[1].Key :>
                                               st.updates[1].Value)),
                    st.containers))

\* applyAndUpdateEachServiceUsingCompose: what follows the loop that ended
\* in st (WriteComposeFile, unless the loop failed)
ApplyOutcome(env, compose, mem, st) ==
    IF st.err
      THEN Outcome(env, compose, mem, FALSE, 0, TRUE)
      ELSE Outcome(env, st.compose, mem, st.containers # <<>>, 1, FALSE)

\* Docker.applyAndUpdateEachServiceUsingCompose (the compose-only variant of
\* the mutator): the loop, then WriteComposeFile
applyAndUpdateEachServiceUsingCompose(env, compose, mem, updates) ==
    ApplyOutcome(env, compose, mem,
                 ApplyEach([compose |-> compose, containers |-> <<>>,
                            err |-> FALSE, updates |-> updates]))

(***************************************************************************)
(* Part II: the handlers                                                   *)
(***************************************************************************)
\* const MaxCoinLength
MaxCoinLength == 20
\* const MaxNameLength
MaxNameLength == 40
\* const MaxImageLength
MaxImageLength == 2000
\* const MaxExplorerURLLength
MaxExplorerURLLength == 255

\* viper: the service and container names
frontendServiceName == "frontend"
frontendContainerName == "frontend"
backendServiceName == "backend"
backendContainerName == "backend"
statsServiceName == "stats"
statsContainerName == "stats"

\* docker.Container
Container(name, service) == [Name |-> name, ServiceName |-> service]

\* url.Parse, the authority: the text between "://" and the first "/"
Authority(rest, slash) ==
    IF slash = 0 THEN rest ELSE SubSeq(rest, 1, slash - 1)

\* url.Parse of scheme "://" host: a space in the host is an error
ParseHost(scheme, host) ==
    IF Contains(host, " ")
      THEN [err |-> TRUE, Scheme |-> "", Host |-> <<>>]
      ELSE [err |-> FALSE, Scheme |-> scheme, Host |-> host]

\* url.Parse: [err, Scheme, Host] of a URL spelled scheme "://" host[:port]
\* [/path]; without "://" the text is a path and Scheme and Host are empty
ParseURL(u) ==
    IF Len(u) >= 2 /\ u[2] = "://"
      THEN ParseHost(u[1], Authority(SubSeq(u, 3, Len(u)),
                                     IndexOf(SubSeq(u, 3, Len(u)), "/")))
      ELSE [err |-> FALSE, Scheme |-> "", Host |-> <<>>]

\* the handler result: the files it leaves, HandlerResult.Error (set or
\* not), HandlerResult.ContainersToRestart, the flags its mutator calls
\* returned and the number of file writes
Result(env, compose, error, containers, flags, writes) ==
    [envFile |-> env, composeFile |-> compose, error |-> error,
     containers |-> containers, flags |-> flags, writes |-> writes]

\* (mutant) a validateCoin that accepts the empty symbol
validateCoinLengthOnly(coin) == StrLen(coin) > MaxCoinLength

\* CoinHandler.validateCoin: TRUE when it returns an error
validateCoin(coin) ==
    \/ coin = <<>>
    \/ StrLen(coin) = 0
    \/ StrLen(coin) > MaxCoinLength

\* CoinHandler.Handle: the updates, in order
CoinUpdates(record) ==
    << [ServiceName |-> frontendServiceName,
        Key |-> "NEXT_PUBLIC_NETWORK_CURRENCY_SYMBOL",
        Value |-> record.Coin, ContainerName |-> frontendContainerName],
       [ServiceName |-> backendServiceName,
        Key |-> "COIN",
        Value |-> record.Coin, ContainerName |-> backendContainerName],
       [ServiceName |-> statsServiceName,
        Key |-> "STATS_CHARTS__TEMPLATE_VALUES__NATIVE_COIN_SYMBOL",
        Value |-> record.Coin, ContainerName |-> statsContainerName] >>

\* CoinHandler.Handle, one update e whose UpdateServiceEnv gave r: the
\* result so far, with the map of the handler's Env
CoinStep(acc, e, r) ==
    IF r.err
      THEN [acc EXCEPT !.error = TRUE]
      ELSE [envFile |-> r.envFile, composeFile |-> r.composeFile,
            error |-> FALSE,
            containers |-> IF r.updated
                             THEN Append(acc.containers,
                                         Container(e.ContainerName,
                                                   e.ServiceName))
                             ELSE acc.containers,
            flags |-> Append(acc.flags, r.updated),
            writes |-> acc.writes + r.writes,
            mem |-> r.envMem]

RECURSIVE CoinApply(_, _, _)
\* CoinHandler.Handle: the loop over the updates; acc is the result so far
\* (with mem, the map of the handler's Env)
CoinApply(acc, path, updates) ==
    IF acc.error \/ updates = <<>> THEN acc
    ELSE CoinApply(
           CoinStep(acc, updates[1],
                    UpdateServiceEnv(acc.envFile, acc.composeFile, acc.mem,
                                     path, updates[1].ServiceName,
                                     (updates[1].Key :> updates[1].Value))),
           path, Tail(updates))

\* HandlerResult of a loop that ended in acc
AsResult(acc) ==
    [envFile |-> acc.envFile, composeFile |-> acc.composeFile,
     error |-> acc.error, containers |-> acc.containers,
     flags |-> acc.flags, writes |-> acc.writes]

\* (mutant) a Handle that validates after its updates: an invalid symbol is
\* written and then reported
CoinHandleValidateLast(env, compose, path, record) ==
    [AsResult(CoinApply([envFile |-> env, composeFile |-> compose,
                         error |-> FALSE, containers |-> <<>>,
                         flags |-> <<>>, writes |-> 0, mem |-> EmptyMap],
                        path, CoinUpdates(record)))
        EXCEPT !.error = @ \/ validateCoin(record.Coin)]

\* CoinHandler.Handle
CoinHandle(env, compose, path, record) ==
    IF validateCoin(record.Coin)
      THEN Result(env, compose, TRUE, <<>>, <<>>, 0)
      ELSE AsResult(CoinApply([envFile |-> env, composeFile |-> compose,
                               error |-> FALSE, containers |-> <<>>,
                               flags |-> <<>>, writes |-> 0,
                               mem |-> EmptyMap],
                              path, CoinUpdates(record)))

\* the image URLs that answer a HEAD request with 200 and an image/ type
ReachableImages ==
    { <<"https", "://", "cdn.aurora.dev", "/", "logo.png">> }

\* ImageHandler.validateImage: TRUE when it returns an error
validateImage(imageURL) ==
    \/ imageURL = <<>>
    \/ StrLen(imageURL) > MaxImageLength
    \/ ParseURL(imageURL).err
    \/ ParseURL(imageURL).Scheme \notin {"http", "https"}
    \/ imageURL \notin ReachableImages

\* ImageHandler.Handle: updates[frontendServiceName]
ImageUpdates(record) ==
       (IF validateImage(record.LightLogoURL) THEN EmptyMap
        ELSE ("NEXT_PUBLIC_NETWORK_LOGO" :> record.LightLogoURL))
    @@ (IF validateImage(record.DarkLogoURL) THEN EmptyMap
        ELSE ("NEXT_PUBLIC_NETWORK_LOGO_DARK" :> record.DarkLogoURL))
    @@ (IF validateImage(record.FaviconURL) THEN EmptyMap
        ELSE ("NEXT_PUBLIC_NETWORK_ICON" :> record.FaviconURL))

\* ImageHandler.Handle: the image fields of a record in the order in which
\* Handle validates them
ImageFieldOrder == <<"LightLogoURL", "DarkLogoURL", "FaviconURL">>

\* ImageHandler.Handle: the fields whose validateImage returns an error, in
\* the order of the assignments to result.Error
FailedImageFields(record) ==
    SelectSeq(ImageFieldOrder, LAMBDA f : validateImage(record[f]))

\* ImageHandler.Handle: the field whose error result.Error holds after the
\* three validations, each failure having overwritten the one before ("nil":
\* no field failed)
ImageError(record) ==
    IF FailedImageFields(record) = <<>> THEN "nil"
    ELSE FailedImageFields(record)[Len(FailedImageFields(record))]

\* a handler's result after its one mutator call gave r: `invalid` is the
\* error set before the call, `containers` the restart set if r.updated
AfterUpdate(env, compose, invalid, containers, r) ==
    IF r.err
      THEN Result(env, compose, TRUE, <<>>, <<>>, 0)
      ELSE Result(r.envFile, r.composeFile, invalid,
                  IF r.updated THEN containers ELSE <<>>,
                  <<r.updated>>, r.writes)

\* (mutant) a Handle without the early return for a record with no image
ImageHandleNoEarlyReturn(env, compose, path, record) ==
    AfterUpdate(env, compose,
                ImageError(record) # "nil",
                <<Container(frontendContainerName, frontendServiceName)>>,
                UpdateServiceEnv(env, compose, EmptyMap, path,
                                 frontendServiceName, ImageUpdates(record)))

\* ImageHandler.Handle
ImageHandle(env, compose, path, record) ==
    IF record.LightLogoURL = <<>> /\ record.DarkLogoURL = <<>>
         /\ record.FaviconURL = <<>>
      THEN Result(env, compose, FALSE, <<>>, <<>>, 0)
      ELSE AfterUpdate(env, compose,
                       ImageError(record) # "nil",
                       <<Container(frontendContainerName,
                                   frontendServiceName)>>,
                       UpdateServiceEnv(env, compose, EmptyMap, path,
                                        frontendServiceName,
                                        ImageUpdates(record)))

\* NameHandler.validateName: TRUE when it returns an error
validateName(name) ==
    \/ name = <<>>
    \/ StrLen(name) = 0
    \/ StrLen(name) > MaxNameLength

\* the NEXT_PUBLIC_FEATURED_NETWORKS value for a title and a url
FeaturedNetworks(title, url) ==
    << "[{'title':'Aurora','url':'https://explorer.aurora.dev/','group':'Mainnets'},",
       " ", "{'title':'" >> \o title \o << "','url':'" >> \o url
    \o << "','group':'Mainnets',", " ", "'isActive':true}]" >>

\* NameHandler.Handle, with its allUpdates
NameHandle(env, compose, path, record) ==
    IF validateName(record.Name)
      THEN Result(env, compose, TRUE, <<>>, <<>>, 0)
      ELSE AfterUpdate(env, compose, FALSE,
                       <<Container(frontendContainerName,
                                   frontendServiceName)>>,
                       UpdateEnvFile(
                           env, compose, EmptyMap, path,
                              ("NEXT_PUBLIC_NETWORK_NAME" :> record.Name)
                           @@ ("NEXT_PUBLIC_NETWORK_SHORT_NAME" :> record.Name)
                           @@ ("NEXT_PUBLIC_FEATURED_NETWORKS" :>
                                  FeaturedNetworks(record.Name,
                                                   record.ExplorerURL))))

\* ExplorerHandler.validateExplorerURL: TRUE when it returns an error
validateExplorerURL(explorerURL) ==
    \/ explorerURL = <<>>
    \/ StrLen(explorerURL) > MaxExplorerURLLength
    \/ ParseURL(explorerURL).err
    \/ ParseURL(explorerURL).Scheme = ""
    \/ ParseURL(explorerURL).Host = <<>>

\* ExplorerHandler.extractHostFromURL: strings.Split(host, ":")[0]
extractHostFromURL(urlStr) ==
    IF Contains(ParseURL(urlStr).Host, ":")
      THEN SubSeq(ParseURL(urlStr).Host, 1,
                  IndexOf(ParseURL(urlStr).Host, ":") - 1)
      ELSE ParseURL(urlStr).Host

\* ExplorerHandler.extractProtocolFromURL
extractProtocolFromURL(urlStr) ==
    IF ParseURL(urlStr).err THEN "https"
    ELSE IF ParseURL(urlStr).Scheme = "http" THEN "http" ELSE "https"

\* ExplorerHandler.Handle: sidecarUpdates, for the host, the protocol and
\* their concatenation protocol://host
SidecarMap(name, host, protocol, base) ==
       ("BLOCKSCOUT_HOST" :> host)
    @@ ("MICROSERVICE_VISUALIZE_SOL2UML_URL" :>
           <<protocol, "://", "visualize.">> \o host)
    @@ ("NEXT_PUBLIC_FEATURED_NETWORKS" :> FeaturedNetworks(name, base))
    @@ ("NEXT_PUBLIC_API_HOST" :> host)
    @@ ("NEXT_PUBLIC_APP_HOST" :> host)
    @@ ("NEXT_PUBLIC_STATS_API_HOST" :> base)
    @@ ("NEXT_PUBLIC_VISUALIZE_API_HOST" :> base)
    @@ ("STATS__BLOCKSCOUT_API_URL" :> base)
    @@ ("EXPLORER_URL" :> host)
    @@ ("BLOCKSCOUT_HTTP_PROTOCOL" :> <<protocol>>)

\* ExplorerHandler.Handle: sidecarUpdates of a record
SidecarUpdates(record) ==
    SidecarMap(record.Name,
               extractHostFromURL(record.ExplorerURL),
               extractProtocolFromURL(record.ExplorerURL),
               <<extractProtocolFromURL(record.ExplorerURL), "://">>
                   \o extractHostFromURL(record.ExplorerURL))

\* (mutant) the proxy is added when either of its names is configured
ExplorerRestartSetEither(proxyService, proxyContainer) ==
    << Container(backendContainerName, backendServiceName),
       Container(frontendContainerName, frontendServiceName),
       Container(statsContainerName, statsServiceName) >>
    \o (IF proxyService # "" \/ proxyContainer # ""
          THEN <<Container(proxyContainer, proxyService)>>
          ELSE <<>>)

\* ExplorerHandler.Handle: containersToRestart, built if updated
ExplorerRestartSet(proxyService, proxyContainer) ==
    << Container(backendContainerName, backendServiceName),
       Container(frontendContainerName, frontendServiceName),
       Container(statsContainerName, statsServiceName) >>
    \o (IF proxyService # "" /\ proxyContainer # ""
          THEN <<Container(proxyContainer, proxyService)>>
          ELSE <<>>)

\* ExplorerHandler.Handle
ExplorerHandle(env, compose, path, record) ==
    IF validateExplorerURL(record.ExplorerURL)
      THEN Result(env, compose, TRUE, <<>>, <<>>, 0)
      ELSE AfterUpdate(env, compose, FALSE,
                       ExplorerRestartSet(proxyServiceName,
                                          proxyContainerName),
                       UpdateEnvFile(env, compose, EmptyMap, path,
                                     SidecarUpdates(record)))

(***************************************************************************)
(* Part II: the handler pipeline                                           *)
(***************************************************************************)
\* HandleMessage: the handlers, in order
Handlers == <<"coin", "image", "name">>

\* Handler.Handle of the handler called h
Handle(h, env, compose, path, record) ==
    CASE h = "coin" -> CoinHandle(env, compose, path, record)
      [] h = "image" -> ImageHandle(env, compose, path, record)
      [] h = "name" -> NameHandle(env, compose, path, record)
      [] h = "explorer" -> ExplorerHandle(env, compose, path, record)

\* what a pipeline run has done so far
Run(env, compose, error, containers, flags, invoked) ==
    [envFile |-> env, composeFile |-> compose, error |-> error,
     containers |-> containers, flags |-> flags, invoked |-> invoked]

\* HandleMessage, one handler h with result r
RunStep(acc, h, r) ==
    IF r.error
      THEN \* return fmt.Errorf("handler error: %w", result.Error)
           Run(r.envFile, r.composeFile, TRUE, acc.containers,
               acc.flags \o r.flags, Append(acc.invoked, h))
      ELSE Run(r.envFile, r.composeFile, FALSE,
               acc.containers \o r.containers,
               acc.flags \o r.flags, Append(acc.invoked, h))

RECURSIVE RunHandlers(_, _, _, _)
\* HandleMessage: the loop over the handlers
RunHandlers(acc, hs, path, record) ==
    IF acc.error \/ hs = <<>> THEN acc
    ELSE RunHandlers(
           RunStep(acc, hs[1],
                   Handle(hs[1], acc.envFile, acc.composeFile, path, record)),
           Tail(hs), path, record)

(***************************************************************************)
(* The mutator called directly (Env.UpdateEnvVars, UpdateServiceEnv of a   *)
(* BaseHandler, applyAndUpdateEachServiceUsingCompose), by one goroutine.  *)
(***************************************************************************)
ServiceNames == {"frontend", "backend", "stats"}

\* values the callers pass
ValPlain == <<"ETH">>
ValQuoted == <<"'", "ETH", "'">>

\* the key->value maps the direct callers pass
UpdateMaps ==
    { ("COIN" :> ValPlain),
      ("COIN" :> ValQuoted),
      ("COIN" :> ValPlain) @@ ("NEXT_PUBLIC_NETWORK_NAME" :> <<"Aurora", " ", "Testnet">>) }

\* the env file a deployment starts with: the empty file sidecar creates, or
\* a file written by hand
EnvFilesAtStart ==
    { <<>>,
      << <<"#", " ", "sidecar">>,
         <<>>,
         <<"COIN", " ", "=", " ", "\"", "BTC", "\"">> >> }

NoOp ==
    [op |-> "none", arg |-> <<>>, updated |-> FALSE, writes |-> 0,
     err |-> FALSE, repeat |-> FALSE, prevUpdated |-> FALSE,
     prevErr |-> FALSE,
     invoked |-> <<>>, flags |-> <<>>, job |-> <<>>, same |-> TRUE,
     changed |-> <<>>]

\* (mutant) a Subscribe that joins and starts the listener first and
\* reconciles last
SubscribeStepsCheckLast == <<"join", "listen", "InitialCheck">>

\* (mutant) a Subscribe that opens the channel before it reconciles
SubscribeStepsJoinFirst == <<"listen", "join", "InitialCheck">>

\* the steps of Subscription.Subscribe, in the order of its statements:
\* s.InitialCheck(worker); go func() { ... ReadMessage ... }();
\* s.client.Conn.WriteJSON(payload)
SubscribeSteps == <<"InitialCheck", "listen", "join">>

\* no goroutine is in HandleMessage or writes on the connection, the server
\* has sent nothing
ConcIdle ==
    /\ hpc = [g \in {"main", "listener"} |-> "idle"]
    /\ sent = <<>> /\ nread = 0 /\ handled = <<>>
    /\ connWriters = {}

\* Subscribe has not been called
SubIdle ==
    /\ subPc = 1 /\ subRet = "none" /\ checkPc = "idle" /\ rows = <<>>
    /\ listening = FALSE /\ log = <<>> /\ checkErr = "none"
    /\ received = <<>>
    /\ ConcIdle

\* Subscribe has returned nil (InitialCheck found no row) and the listener
\* goroutine runs
SubListening ==
    /\ subPc = Len(SubscribeSteps) + 1 /\ subRet = "nil" /\ checkPc = "done"
    /\ rows = <<>> /\ listening = TRUE /\ log = <<"loop", "join">>
    /\ checkErr = "none" /\ received = <<>>
    /\ ConcIdle

\* the mutator's state at start: the files, and which backing is configured
MutatorInit ==
    /\ jobs = <<>> /\ jobSet = {} /\ jobSetMux = {}
    /\ spc = [s \in Submitters |-> "idle"]
    /\ sjob = [s \in Submitters |-> NoJob]
    /\ wpc = "start" /\ wjob = NoJob /\ cancelled = FALSE
    /\ active = 0 /\ started = {} /\ nextId = 1 /\ calls = 0 /\ dirty = {}
    /\ outcome = "none" /\ waited = 0
    /\ envFile \in EnvFilesAtStart
    /\ composeFile = [s \in ServiceNames |-> EmptyMap]
    /\ envMem = EmptyMap
    /\ pathToEnvFile \in {"", "sidecar-injected.env"}
    /\ proxyServiceName = ""
    /\ proxyContainerName = ""
    /\ last = NoOp
    /\ SubIdle

\* the worker at start; the configuration files are left alone
Init ==
    /\ jobs = <<>> /\ jobSet = {} /\ jobSetMux = {}
    /\ spc = [s \in Submitters |-> "idle"]
    /\ sjob = [s \in Submitters |-> NoJob]
    /\ wpc = "start" /\ wjob = NoJob /\ cancelled = FALSE
    /\ active = 0 /\ started = {} /\ nextId = 1 /\ calls = 0 /\ dirty = {}
    /\ outcome = "none" /\ waited = 0
    /\ envFile = <<>>
    /\ composeFile = [s \in ServiceNames |-> EmptyMap]
    /\ envMem = EmptyMap
    /\ pathToEnvFile = ""
    /\ proxyServiceName = ""
    /\ proxyContainerName = ""
    /\ last = NoOp
    /\ SubIdle

\* the record of a direct mutator call with outcome r
CallRecord(op, arg, r) ==
    [op |-> op, arg |-> arg, updated |-> r.updated, writes |-> r.writes,
     err |-> r.err,
     repeat |-> (last.op = op /\ last.arg = arg),
     prevUpdated |-> last.updated, prevErr |-> last.err,
     invoked |-> <<>>, flags |-> <<r.updated>>, job |-> <<>>,
     same |-> (r.envFile = envFile /\ r.composeFile = composeFile),
     changed |-> <<>>]

\* the files and the Env's map after outcome r
Commit(r) ==
    /\ envFile' = r.envFile
    /\ composeFile' = r.composeFile
    /\ envMem' = r.envMem

CallUpdateEnvVars(updates) ==
    /\ \E r \in {BatchOutcome(composeFile,
                                UpdateEnvVars(envMem, envFile, pathToEnvFile,
                                              updates))} :
           /\ Commit(r)
           /\ last' = CallRecord("UpdateEnvVars", updates, r)
    /\ UNCHANGED <<pathToEnvFile, proxyServiceName, proxyContainerName>>
    /\ UNCHANGED subVars
    /\ UNCHANGED workerVars

CallUpdateServiceEnv(serviceName, envVars) ==
    /\ \E r \in {UpdateServiceEnv(envFile, composeFile, envMem,
                                    pathToEnvFile, serviceName, envVars)} :
           /\ Commit(r)
           /\ last' = CallRecord("UpdateServiceEnv", <<serviceName, envVars>>, r)
    /\ UNCHANGED <<pathToEnvFile, proxyServiceName, proxyContainerName>>
    /\ UNCHANGED subVars
    /\ UNCHANGED workerVars

\* the EnvUpdate list that sets the entries of m in service s
AsEnvUpdates(s, m) ==
    LET keys == SelectSeq(SortedKeys, LAMBDA k : k \in DOMAIN m) IN
    [i \in 1..Len(keys) |->
        [ServiceName |-> s, Key |-> keys[i], Value |-> m[keys[i]],
         ContainerName |-> s]]

CallApplyCompose(serviceName, envVars) ==
    /\ \E r \in {applyAndUpdateEachServiceUsingCompose(
                      envFile, composeFile, envMem,
                      AsEnvUpdates(serviceName, envVars))} :
           /\ Commit(r)
           /\ last' = CallRecord("applyAndUpdateEachServiceUsingCompose",
                                 <<serviceName, envVars>>, r)
    /\ UNCHANGED <<pathToEnvFile, proxyServiceName, proxyContainerName>>
    /\ UNCHANGED subVars
    /\ UNCHANGED workerVars

MutatorNext ==
    \/ \E m \in UpdateMaps : CallUpdateEnvVars(m)
    \/ \E s \in {"frontend", "backend", "proxy"}, m \in UpdateMaps :
           CallUpdateServiceEnv(s, m)
    \/ \E s \in {"frontend", "backend"}, m \in UpdateMaps :
           CallApplyCompose(s, m)

MutatorSpec == MutatorInit /\ [][MutatorNext]_vars

(***************************************************************************)
(* The handler pipeline: the listener goroutine handles one message after  *)
(* the other.                                                              *)
(***************************************************************************)
UrlPlain == <<"https", "://", "explorer.aurora.dev">>
UrlPortPath == <<"http", "://", "explorer.aurora.dev", ":", "8080", "/">>
UrlNoScheme == <<"explorer.aurora.dev">>
ImageGood == <<"https", "://", "cdn.aurora.dev", "/", "logo.png">>
ImageGone == <<"https", "://", "cdn.aurora.dev", "/", "gone.png">>
NamePlain == <<"Aurora">>

\* viper "chainId"
ConfiguredChainId == 1313161555

\* handlers.Record, of a row of the configured chain
Record(name, coin, light, dark, icon, explorer) ==
    [Name |-> name, Coin |-> coin, ChainID |-> ConfiguredChainId,
     LightLogoURL |-> light, DarkLogoURL |-> dark, FaviconURL |-> icon,
     ExplorerURL |-> explorer]

\* the zero Record: what json.Unmarshal leaves when the payload has no
\* record fields
EmptyRecord ==
    [Record(<<>>, <<>>, <<>>, <<>>, <<>>, <<>>) EXCEPT !.ChainID = 0]

\* a row of the table that belongs to another chain
ForeignRecord ==
    [Record(<<"Near">>, <<"NEAR">>, <<>>, <<>>, <<>>,
            <<"https", "://", "explorer.near.org">>)
       EXCEPT !.ChainID = 1313161554]

\* the records the listener receives
Records ==
    { Record(NamePlain, ValPlain, <<>>, <<>>, <<>>, UrlPlain),
      Record(<<"Aurora", " ", "\"", "Test", "\"">>, ValPlain, <<>>, <<>>, <<>>,
             UrlPlain),
      Record(NamePlain, <<>>, ImageGood, ImageGood, ImageGood, UrlPlain),
      Record(NamePlain, ValPlain, ImageGood, ImageGood, ImageGood, UrlPlain),
      Record(NamePlain, ValPlain, ImageGood, ImageGone, ImageGood, UrlPlain),
      Record(NamePlain, ValPlain, <<>>, <<>>, <<>>, UrlPortPath) }

\* the records the explorer handler is called with
ExplorerRecords ==
    { Record(NamePlain, ValPlain, <<>>, <<>>, <<>>, UrlPlain),
      Record(NamePlain, ValPlain, <<>>, <<>>, <<>>, UrlPortPath),
      Record(NamePlain, ValPlain, <<>>, <<>>, <<>>, UrlNoScheme) }

\* the sidecar at start: the env file (pathToEnvFile is a required setting),
\* whether the proxy is configured
PipelineInit ==
    /\ jobs = <<>> /\ jobSet = {} /\ jobSetMux = {}
    /\ spc = [s \in Submitters |-> "idle"]
    /\ sjob = [s \in Submitters |-> NoJob]
    /\ wpc = "start" /\ wjob = NoJob /\ cancelled = FALSE
    /\ active = 0 /\ started = {} /\ nextId = 1 /\ calls = 0 /\ dirty = {}
    /\ outcome = "none" /\ waited = 0
    /\ envFile \in EnvFilesAtStart
    /\ composeFile = [s \in ServiceNames |-> EmptyMap]
    /\ envMem = EmptyMap
    /\ pathToEnvFile = "sidecar-injected.env"
    /\ proxyServiceName \in {"", "proxy"}
    /\ proxyContainerName \in {"", "proxy"}
    /\ last = NoOp
    /\ SubListening

\* the record of a handler run: the handlers invoked, the flags of the
\* mutator calls, the list passed to AddJob (or the restart set of a handler
\* run on its own), the containers the handlers returned in their results
RunRecord(op, record, run, job) ==
    [op |-> op, arg |-> record,
     updated |-> (TRUE \in Range(run.flags)), writes |-> 0,
     err |-> run.error,
     repeat |-> (last.op = op /\ last.arg = record),
     prevUpdated |-> last.updated, prevErr |-> last.err,
     invoked |-> run.invoked, flags |-> run.flags, job |-> job,
     same |-> (run.envFile = envFile /\ run.composeFile = composeFile),
     changed |-> run.containers]

\* PostgresChanges.HandleMessage for a record.  The call p.Worker.AddJob
\* (containersToRestart) is AddJobCall of Part I; here its argument is kept
\* in last.job (<<>>: AddJob is not called)
HandleMessage(record) ==
    /\ \E run \in {RunHandlers(Run(envFile, composeFile, FALSE, <<>>, <<>>,
                                     <<>>),
                                 Handlers, pathToEnvFile, record)} :
       LET containersToRestart == run.containers
           submit == ~run.error /\ Len(containersToRestart) > 0
       IN  /\ envFile' = run.envFile
           /\ composeFile' = run.composeFile
           /\ last' = RunRecord("HandleMessage", record, run,
                                IF submit THEN containersToRestart ELSE <<>>)
    /\ UNCHANGED <<envMem, pathToEnvFile, proxyServiceName,
                   proxyContainerName>>
    /\ UNCHANGED workerVars

\* ExplorerHandler.Handle for a record, called on its own
CallExplorerHandle(record) ==
    /\ \E r \in {ExplorerHandle(envFile, composeFile, pathToEnvFile, record)} :
       LET run == Run(r.envFile, r.composeFile, r.error, r.containers,
                      r.flags, <<"explorer">>)
       IN  /\ envFile' = r.envFile
           /\ composeFile' = r.composeFile
           /\ last' = RunRecord("ExplorerHandle", record, run, r.containers)
    /\ UNCHANGED <<envMem, pathToEnvFile, proxyServiceName,
                   proxyContainerName>>
    /\ UNCHANGED subVars
    /\ UNCHANGED workerVars

PipelineNext ==
    \/ \E record \in Records : HandleMessage(record) /\ UNCHANGED subVars
    \/ \E record \in ExplorerRecords : CallExplorerHandle(record)

PipelineSpec == PipelineInit /\ [][PipelineNext]_vars

(***************************************************************************)
(* The handlers called one at a time, each on its own record               *)
(***************************************************************************)
\* the records the coin handler is called with.  The coin symbols: empty, of
\* 1, 20 and 21 ASCII characters, of 7 characters that take 21 bytes, and one
\* that its quotes make differ from what is read back
CoinRecords ==
    { Record(NamePlain, coin, <<>>, <<>>, <<>>, UrlPlain) :
        coin \in { <<>>, <<"E">>, ValQuoted, <<"ABCDEFGHIJKLMNOPQRST">>,
                   <<"ABCDEFGHIJKLMNOPQRSTU">>,
                   [i \in 1..7 |-> "U+20BF"] } }

\* the records the image handler is called with: light logo, dark logo,
\* favicon
ImageRecords ==
    { Record(NamePlain, ValPlain, i[1], i[2], i[3], UrlPlain) :
        i \in { <<<<>>, <<>>, <<>>>>,
                <<ImageGood, ImageGood, ImageGood>>,
                <<ImageGood, <<>>, <<>>>>,
                <<<<>>, ImageGood, ImageGood>>,
                <<ImageGood, ImageGone, ImageGood>>,
                <<ImageGone, ImageGone, ImageGood>> } }

\* the sidecar at start: the empty env file sidecar creates, with either
\* backing
HandlerInit ==
    /\ jobs = <<>> /\ jobSet = {} /\ jobSetMux = {}
    /\ spc = [s \in Submitters |-> "idle"]
    /\ sjob = [s \in Submitters |-> NoJob]
    /\ wpc = "start" /\ wjob = NoJob /\ cancelled = FALSE
    /\ active = 0 /\ started = {} /\ nextId = 1 /\ calls = 0 /\ dirty = {}
    /\ outcome = "none" /\ waited = 0
    /\ envFile = <<>>
    /\ composeFile = [s \in ServiceNames |-> EmptyMap]
    /\ envMem = EmptyMap
    /\ pathToEnvFile \in {"", "sidecar-injected.env"}
    /\ proxyServiceName = "proxy"
    /\ proxyContainerName = "proxy"
    /\ last = NoOp
    /\ SubListening

\* a handler's Handle called on its own with a record, r its result
CallHandle(op, name, record, r) ==
    /\ envFile' = r.envFile
    /\ composeFile' = r.composeFile
    /\ last' = RunRecord(op, record,
                         Run(r.envFile, r.composeFile, r.error, r.containers,
                             r.flags, <<name>>),
                         r.containers)
    /\ UNCHANGED <<envMem, pathToEnvFile, proxyServiceName,
                   proxyContainerName>>
    /\ UNCHANGED subVars
    /\ UNCHANGED workerVars

\* CoinHandler.Handle for a record
CallCoinHandle(record) ==
    \E r \in {CoinHandle(envFile, composeFile, pathToEnvFile, record)} :
        CallHandle("CoinHandle", "coin", record, r)

\* ImageHandler.Handle for a record
CallImageHandle(record) ==
    \E r \in {ImageHandle(envFile, composeFile, pathToEnvFile, record)} :
        CallHandle("ImageHandle", "image", record, r)

\* NameHandler.Handle for a record
CallNameHandle(record) ==
    \E r \in {NameHandle(envFile, composeFile, pathToEnvFile, record)} :
        CallHandle("NameHandle", "name", record, r)

HandlerNext ==
    \/ \E record \in CoinRecords : CallCoinHandle(record)
    \/ \E record \in ImageRecords : CallImageHandle(record)
    \/ \E name \in {<<>>, NamePlain,
                     <<"ABCDEFGHIJKLMNOPQRSTUVWXYZABCDEFGHIJKLMNO">>} :
          CallNameHandle(Record(name, ValPlain, <<>>, <<>>, <<>>, UrlPlain))
    \/ \E url \in {UrlNoScheme, UrlPlain} :
          CallExplorerHandle(Record(NamePlain, ValPlain, <<>>, <<>>, <<>>,
                                    url))

HandlerSpec == HandlerInit /\ [][HandlerNext]_vars

(***************************************************************************)
(* Subscription.Subscribe: the initial check, then the listener goroutine  *)
(* and the join message.                                                   *)
(***************************************************************************)
\* l with event kind e noted at its first occurrence
Note(l, e) == IF e \in Range(l) THEN l ELSE Append(l, e)

\* Subscribe is at the step called name
AtStep(name) ==
    /\ subRet = "none"
    /\ hpc["main"] = "idle"
    /\ subPc <= Len(SubscribeSteps)
    /\ SubscribeSteps[subPc] = name

\* (mutant) a Subscribe that goes on after a failed initial check
AfterInitialCheckGoOn(failed) == [ret |-> "none", pc |-> subPc + 1]

\* Subscribe after InitialCheck has returned: return the error, or go on
AfterInitialCheck(failed) ==
    IF failed THEN [ret |-> "error", pc |-> subPc]
              ELSE [ret |-> "none", pc |-> subPc + 1]

\* InitialCheck returns, with error err or with "none"
InitialCheckReturn(err) ==
    /\ checkErr' = err
    /\ checkPc' = "done"
    /\ rows' = <<>>
    /\ subRet' = AfterInitialCheck(err # "none").ret
    /\ subPc' = AfterInitialCheck(err # "none").pc

\* SELECT ... FROM <table> WHERE chain_id = $1, over a table that holds the
\* rows of several chains
SelectRows(chainId) ==
    {record \in Records \cup {ForeignRecord} : record.ChainID = chainId}

\* InitialCheck: sql.Open and db.Query (LIMIT 1)
InitialCheckQuery ==
    /\ AtStep("InitialCheck")
    /\ checkPc = "idle"
    /\ \/ \E err \in {"open", "query"} : InitialCheckReturn(err)
       \/ /\ checkPc' = "rows"
          /\ rows' \in {<<>>} \cup {<<record>> :
                                      record \in SelectRows(ConfiguredChainId)}
          /\ UNCHANGED <<subPc, subRet, checkErr>>
    /\ UNCHANGED <<listening, log, received>>
    /\ UNCHANGED concVars
    /\ UNCHANGED pipeVars
    /\ UNCHANGED workerVars

\* InitialCheck: rows.Next() is true, rows.Scan fails
InitialCheckScanError ==
    /\ AtStep("InitialCheck")
    /\ checkPc = "rows"
    /\ rows # <<>>
    /\ InitialCheckReturn("scan")
    /\ UNCHANGED <<listening, log, received>>
    /\ UNCHANGED concVars
    /\ UNCHANGED pipeVars
    /\ UNCHANGED workerVars

\* InitialCheck: rows.Next() is true, the row is scanned and handled; an
\* error of HandleMessage is logged
InitialCheckRow ==
    /\ AtStep("InitialCheck")
    /\ checkPc = "rows"
    /\ rows # <<>>
    /\ HandleMessage(Head(rows))
    /\ rows' = Tail(rows)
    /\ log' = Note(log, "initial")
    /\ UNCHANGED <<subPc, subRet, checkPc, listening, checkErr, received>>
    /\ UNCHANGED concVars

\* InitialCheck: rows.Next() is false, with rows.Err() set or not
InitialCheckEnd ==
    /\ AtStep("InitialCheck")
    /\ checkPc = "rows"
    /\ \/ InitialCheckReturn("rows")
       \/ rows = <<>> /\ InitialCheckReturn("none")
    /\ UNCHANGED <<listening, log, received>>
    /\ UNCHANGED concVars
    /\ UNCHANGED pipeVars
    /\ UNCHANGED workerVars

\* Subscribe: go func() { for { ReadMessage ... } }()
StartListening ==
    /\ AtStep("listen")
    /\ listening' = TRUE
    /\ log' = Note(log, "loop")
    /\ subPc' = subPc + 1
    /\ UNCHANGED <<subRet, checkPc, rows, checkErr, received>>
    /\ UNCHANGED concVars
    /\ UNCHANGED pipeVars
    /\ UNCHANGED workerVars

\* Subscribe: WriteJSON(payload) of the phx_join message; log.Fatalf when it
\* fails
JoinWritten ==
    /\ AtStep("join")
    /\ \/ /\ log' = Note(log, "join")
          /\ subPc' = subPc + 1
          /\ UNCHANGED <<subRet, listening>>
       \/ /\ subRet' = "exit"
          /\ listening' = FALSE
          /\ UNCHANGED <<subPc, log>>
    /\ UNCHANGED <<checkPc, rows, checkErr, received>>
    /\ UNCHANGED pipeVars
    /\ UNCHANGED workerVars

\* Subscribe: the WriteJSON of the join message, taken as one step
SendJoin ==
    /\ JoinWritten
    /\ UNCHANGED concVars

\* Subscribe: return nil
SubscribeReturn ==
    /\ subRet = "none"
    /\ subPc = Len(SubscribeSteps) + 1
    /\ subRet' = "nil"
    /\ UNCHANGED <<subPc, checkPc, rows, listening, log, checkErr,
                   received>>
    /\ UNCHANGED concVars
    /\ UNCHANGED pipeVars
    /\ UNCHANGED workerVars

\* viper "table"
ConfiguredTable == "silos"

\* a WebSocket message: whether json.Unmarshal decodes it, and the decoded
\* PostgresChanges: Event, Payload.Data.Table, Payload.Data.Record
Message(ok, event, table, record) ==
    [ok |-> ok, Event |-> event, Table |-> table, Record |-> record]

\* the change events of the configured table
TableMessages ==
    { Message(TRUE, "postgres_changes", ConfiguredTable, record) :
        record \in Records }

\* the messages ReadMessage returns: the change events of the table, one
\* of them with an empty record (a DELETE: the subscription is to event
\* "*"), a change event of another table, the reply to the join and a
\* system event that name the table, and a message that does not decode
Messages ==
    TableMessages
    \cup { Message(TRUE, "postgres_changes", ConfiguredTable,
                   EmptyRecord),
           Message(TRUE, "postgres_changes", "chains",
                   Record(NamePlain, <<"E">>, <<>>, <<>>, <<>>, UrlPlain)),
           Message(TRUE, "phx_reply", ConfiguredTable,
                   Record(NamePlain, <<"E">>, <<>>, <<>>, <<>>, UrlPlain)),
           Message(TRUE, "system", "",
                   EmptyRecord),
           Message(FALSE, "", "", EmptyRecord) }

\* (mutant) a listener that handles the change events of every table
DispatchesAnyTable(m) == m.ok /\ m.Event = "postgres_changes"

\* the listener goroutine: the message is decoded, its event is
\* postgres_changes and its table is the configured one
Dispatches(m) ==
    m.ok /\ m.Event = "postgres_changes" /\ m.Table = ConfiguredTable

\* the listener goroutine, one iteration of its loop: ReadMessage returns
\* the message m; a message that does not decode is logged and skipped, a
\* change event of the table goes to record.HandleMessage(), a change event
\* of another table is logged, any other event is printed
ReceiveMessage(m) ==
    /\ listening
    /\ received' = <<m>>
    /\ UNCHANGED concVars
    /\ IF Dispatches(m)
         THEN /\ HandleMessage(m.Record)
              /\ log' = Note(log, "live")
         ELSE /\ UNCHANGED pipeVars
              /\ UNCHANGED workerVars
              /\ log' = IF m.ok THEN log ELSE Note(log, "decode error")
    /\ UNCHANGED <<subPc, subRet, checkPc, rows, listening, checkErr>>

\* (mutant) a read error that is logged, the loop going on
ReadErrorContinue ==
    /\ listening
    /\ log' = Note(log, "read error")
    /\ UNCHANGED <<subPc, subRet, checkPc, rows, listening, checkErr,
                   received>>
    /\ UNCHANGED concVars
    /\ UNCHANGED pipeVars
    /\ UNCHANGED workerVars

\* the listener goroutine: ReadMessage returns an error, which is logged;
\* os.Exit(1)
ReadError ==
    /\ listening
    /\ listening' = FALSE
    /\ subRet' = "exit"
    /\ log' = Note(log, "read error")
    /\ UNCHANGED <<subPc, checkPc, rows, checkErr, received>>
    /\ UNCHANGED concVars
    /\ UNCHANGED pipeVars
    /\ UNCHANGED workerVars

\* the sidecar when Subscribe is called: the env file has been created
SubscribeInit ==
    /\ jobs = <<>> /\ jobSet = {} /\ jobSetMux = {}
    /\ spc = [s \in Submitters |-> "idle"]
    /\ sjob = [s \in Submitters |-> NoJob]
    /\ wpc = "start" /\ wjob = NoJob /\ cancelled = FALSE
    /\ active = 0 /\ started = {} /\ nextId = 1 /\ calls = 0 /\ dirty = {}
    /\ outcome = "none" /\ waited = 0
    /\ envFile = <<>>
    /\ composeFile = [s \in ServiceNames |-> EmptyMap]
    /\ envMem = EmptyMap
    /\ pathToEnvFile = "sidecar-injected.env"
    /\ proxyServiceName = ""
    /\ proxyContainerName = ""
    /\ last = NoOp
    /\ SubIdle

SubscribeNext ==
    \/ InitialCheckQuery
    \/ InitialCheckScanError
    \/ InitialCheckRow
    \/ InitialCheckEnd
    \/ StartListening
    \/ SendJoin
    \/ SubscribeReturn
    \/ \E m \in TableMessages : ReceiveMessage(m)
    \/ ReadError

SubscribeSpec == SubscribeInit /\ [][SubscribeNext]_vars

\* the sidecar once Subscribe has returned nil: the listener goroutine runs
ListenerInit ==
    /\ jobs = <<>> /\ jobSet = {} /\ jobSetMux = {}
    /\ spc = [s \in Submitters |-> "idle"]
    /\ sjob = [s \in Submitters |-> NoJob]
    /\ wpc = "start" /\ wjob = NoJob /\ cancelled = FALSE
    /\ active = 0 /\ started = {} /\ nextId = 1 /\ calls = 0 /\ dirty = {}
    /\ outcome = "none" /\ waited = 0
    /\ envFile = <<>>
    /\ composeFile = [s \in ServiceNames |-> EmptyMap]
    /\ envMem = EmptyMap
    /\ pathToEnvFile = "sidecar-injected.env"
    /\ proxyServiceName = ""
    /\ proxyContainerName = ""
    /\ last = NoOp
    /\ SubListening

\* the listener goroutine, whatever message arrives
ListenerNext ==
    \/ \E m \in Messages : ReceiveMessage(m)
    \/ ReadError

ListenerSpec == ListenerInit /\ [][ListenerNext]_vars

(***************************************************************************)
(* The goroutines of the sidecar together: Subscribe on the main           *)
(* goroutine, the listener, the heartbeat and the restart worker           *)
(***************************************************************************)
\* the change events the server sends at most
MaxLive == 2

\* (mutant) a join payload without the chain filter
JoinPayloadNoFilter == [Table |-> ConfiguredTable, Filter |-> <<>>]

\* Subscribe: the postgres_changes entry of the join payload: Table, and
\* Filter "chain_id=eq.<chainId>"
JoinPayload ==
    [Table |-> ConfiguredTable, Filter |-> <<"chain_id", ConfiguredChainId>>]

\* the server: the change events a channel joined with `payload` gets are
\* those of its table whose record passes its filter
ServerSends(payload, m) ==
    m.Event = "postgres_changes"
        => /\ m.Table = payload.Table
           /\ payload.Filter # <<>> => m.Record.ChainID = payload.Filter[2]

\* the changes of the database while the sidecar runs: rows of the
\* configured chain, a row of another chain; and the reply to the join
LiveChanges ==
    { Message(TRUE, "postgres_changes", ConfiguredTable, record) :
        record \in { Record(NamePlain, ValPlain, <<>>, <<>>, <<>>, UrlPlain),
                     Record(NamePlain, ValPlain, <<>>, <<>>, <<>>,
                            UrlPortPath),
                     ForeignRecord } }
    \cup { Message(TRUE, "phx_reply", "", EmptyRecord) }

\* the server sends m on the channel, once the channel is joined
Deliver(m) ==
    /\ "join" \in Range(log)
    /\ subRet # "exit"
    /\ Len(sent) < MaxLive
    /\ ServerSends(JoinPayload, m)
    /\ sent' = Append(sent, m)
    /\ UNCHANGED <<subPc, subRet, checkPc, rows, listening, log, checkErr,
                   received, hpc, nread, handled, connWriters>>
    /\ UNCHANGED pipeVars
    /\ UNCHANGED workerVars

\* the heartbeat goroutine (hb.Start() precedes sub.Subscribe): a tick, and
\* sendHeartbeat's conn.WriteJSON from its call to its return
HeartbeatWrite ==
    /\ subRet # "exit"
    /\ connWriters' = IF "heartbeat" \in connWriters
                        THEN connWriters \ {"heartbeat"}
                        ELSE connWriters \cup {"heartbeat"}
    /\ UNCHANGED <<subPc, subRet, checkPc, rows, listening, log, checkErr,
                   received, hpc, sent, nread, handled>>
    /\ UNCHANGED pipeVars
    /\ UNCHANGED workerVars

\* Subscribe: s.client.Conn.WriteJSON(payload) is called
JoinBegin ==
    /\ AtStep("join")
    /\ "main" \notin connWriters
    /\ connWriters' = connWriters \cup {"main"}
    /\ UNCHANGED <<subPc, subRet, checkPc, rows, listening, log, checkErr,
                   received, hpc, sent, nread, handled>>
    /\ UNCHANGED pipeVars
    /\ UNCHANGED workerVars

\* Subscribe: s.client.Conn.WriteJSON(payload) returns
JoinEnd ==
    /\ "main" \in connWriters
    /\ JoinWritten
    /\ connWriters' = connWriters \ {"main"}
    /\ UNCHANGED <<hpc, sent, nread, handled>>

\* the submitter a goroutine is when it calls AddJob
Submitter(g) == IF g = "main" THEN 1 ELSE 2

\* the record a goroutine has passed to HandleMessage
RunRecordOf(g) == IF g = "main" THEN Head(rows) ELSE received[1].Record

\* UpdateEnvVars would rewrite the env file for this record
WouldWrite(record) ==
    RunHandlers(Run(envFile, composeFile, FALSE, <<>>, <<>>, <<>>),
                Handlers, pathToEnvFile, record).envFile # envFile

\* InitialCheck: a row is scanned and record.HandleMessage() is called
InitialRowBegin ==
    /\ AtStep("InitialCheck")
    /\ checkPc = "rows"
    /\ rows # <<>>
    /\ hpc' = [hpc EXCEPT !["main"] = "run"]
    /\ UNCHANGED <<subPc, subRet, checkPc, rows, listening, log, checkErr,
                   received, sent, nread, handled, connWriters>>
    /\ UNCHANGED pipeVars
    /\ UNCHANGED workerVars

\* the listener goroutine: ReadMessage returns the next message the server
\* sent; a change event of the table is passed to record.HandleMessage()
ListenerRead ==
    /\ listening
    /\ hpc["listener"] = "idle"
    /\ nread < Len(sent)
    /\ nread' = nread + 1
    /\ received' = <<sent[nread + 1]>>
    /\ IF Dispatches(sent[nread + 1])
         THEN /\ hpc' = [hpc EXCEPT !["listener"] = "run"]
              /\ handled' = Append(handled, sent[nread + 1].Record)
         ELSE UNCHANGED <<hpc, handled>>
    /\ UNCHANGED <<subPc, subRet, checkPc, rows, listening, log, checkErr,
                   sent, connWriters>>
    /\ UNCHANGED pipeVars
    /\ UNCHANGED workerVars

\* WriteEnvFile: os.Create has truncated the env file; the lines are not
\* yet written and flushed
RunWrite(g) ==
    /\ hpc[g] = "run"
    /\ WouldWrite(RunRecordOf(g))
    /\ hpc' = [hpc EXCEPT ![g] = "writing"]
    /\ UNCHANGED <<subPc, subRet, checkPc, rows, listening, log, checkErr,
                   received, sent, nread, handled, connWriters>>
    /\ UNCHANGED pipeVars
    /\ UNCHANGED workerVars

\* the handlers have run and the files are written; what is left of
\* HandleMessage is the call of AddJob, if there is one
RunEnd(g) ==
    /\ hpc[g] \in {"run", "writing"}
    /\ hpc[g] = "run" => ~WouldWrite(RunRecordOf(g))
    /\ HandleMessage(RunRecordOf(g))
    /\ hpc' = [hpc EXCEPT ![g] = IF last'.job # <<>> THEN "submit"
                                                      ELSE "idle"]
    /\ IF g = "main"
         THEN rows' = Tail(rows) /\ log' = Note(log, "initial")
         ELSE rows' = rows /\ log' = Note(log, "live")
    /\ UNCHANGED <<subPc, subRet, checkPc, listening, checkErr, received,
                   sent, nread, handled, connWriters>>

\* HandleMessage: p.Worker.AddJob(containersToRestart) is called
RunAddJob(g) ==
    /\ hpc[g] = "submit"
    /\ AddJobEnter(Submitter(g),
                   SubSeq([i \in 1..Len(last.job) |-> last.job[i].Name], 1,
                          Len(last.job)))
    /\ hpc' = [hpc EXCEPT ![g] = "addjob"]
    /\ UNCHANGED <<subPc, subRet, checkPc, rows, listening, log, checkErr,
                   received, sent, nread, handled, connWriters>>

\* HandleMessage: AddJob has returned, and HandleMessage returns
RunReturn(g) ==
    /\ hpc[g] = "addjob"
    /\ spc[Submitter(g)] = "idle"
    /\ hpc' = [hpc EXCEPT ![g] = "idle"]
    /\ UNCHANGED <<subPc, subRet, checkPc, rows, listening, log, checkErr,
                   received, sent, nread, handled, connWriters>>
    /\ UNCHANGED pipeVars
    /\ UNCHANGED workerVars

\* The steps of the goroutines.  The jobs of the rows and events here have
\* two keys (the containers of the coin, those of the name), so that at most
\* two of them wait in the channel and the send of AddJobInsert never finds
\* it full: AddJobSend has no part in these behaviours.
SidecarNext ==
    \/ InitialCheckQuery
    \/ InitialCheckScanError
    \/ InitialRowBegin
    \/ InitialCheckEnd
    \/ StartListening
    \/ JoinBegin
    \/ JoinEnd
    \/ SubscribeReturn
    \/ HeartbeatWrite
    \/ \E m \in LiveChanges : Deliver(m)
    \/ ListenerRead
    \/ \E g \in {"main", "listener"} :
          RunWrite(g) \/ RunEnd(g) \/ RunAddJob(g) \/ RunReturn(g)
    \/ \E s \in Submitters :
          AddJobLock(s) \/ AddJobCheck(s) \/ AddJobInsert(s)
    \/ WorkerStep
    \/ Cancel

\* the sidecar from the call of Subscribe on: the worker and the heartbeat
\* have been started
SidecarSpec == SubscribeInit /\ [][SidecarNext]_vars

Spec == Init /\ [][Next]_vars

KeySpec == Init /\ [][KeyNext]_vars

(***************************************************************************)
(* Part I: properties of the restart worker                                *)
(***************************************************************************)
\* the jobs waiting in the channel
Queued == Range(jobs)

\* the worker holds a job whose recreation has begun and whose key it has
\* not yet cleaned up for the first time
InFlight == wpc \in {"recreate", "cleanup", "failed"}

\* the jobs that are queued or in flight
LiveJobs == Queued \cup (IF InFlight THEN {wjob} ELSE {})

KeyQueuedOrInFlight(key) == \E j \in LiveJobs : makeKey(j.containers) = key

\* no AddJob call is under way, the channel is empty and the worker waits
Quiescent ==
    /\ \A s \in Submitters : spc[s] = "idle"
    /\ jobs = <<>>
    /\ wpc = "select"

\* C1: an AddJob call with a non-empty list is rejected exactly when a job
\* with the same key is queued or being recreated at the moment of its
\* check, and no two queued-or-in-flight jobs have the same key.
C1_RejectIffQueuedOrInFlight ==
    /\ \A s \in Submitters :
         spc[s] = "check" =>
           LET key == makeKey(sjob[s].containers) IN
           (key \in jobSet) <=> KeyQueuedOrInFlight(key)
    /\ \A j1, j2 \in LiveJobs :
         makeKey(j1.containers) = makeKey(j2.containers) => j1 = j2

\* C2: no update is lost: once every AddJob call has returned, the channel
\* is empty and the worker is idle (context not cancelled), no container
\* has a configuration written after the start of its last recreation.
C2_NoUpdateLost ==
    (Quiescent /\ ~cancelled) => dirty = {}

\* C3 (as claimed): no container name belongs to two different jobs that
\* are both queued or in flight.
C3_NoContainerInTwoJobs ==
    \A j1, j2 \in LiveJobs :
        Range(j1.containers) \cap Range(j2.containers) # {} => j1 = j2

\* C3 (amended): AddJob rejects a request only when a job with the identical
\* container-name set is pending, queued or held by the worker; a request
\* that merely overlaps such a job is accepted.
C3_RejectOnlyIdenticalSet ==
    \A s \in Submitters :
        (spc[s] = "check" /\ makeKey(sjob[s].containers) \in jobSet) =>
            \E j \in LiveJobs :
                Range(j.containers) = Range(sjob[s].containers)

\* C3 witness: a request is at its check while a queued or in-flight job
\* shares a container with it, and its key is not in the key set.
C3_Witness ==
    \E s \in Submitters :
        /\ spc[s] = "check"
        /\ makeKey(sjob[s].containers) \notin jobSet
        /\ \E j \in LiveJobs :
              /\ Range(j.containers) \cap Range(sjob[s].containers) # {}
              /\ Range(j.containers) # Range(sjob[s].containers)

\* C4: at most one RecreateContainers call is in progress at any moment.
C4_OneRecreationAtATime == active <= 1

\* C4 witness: a recreation is in progress while another job waits.
C4_Witness == active = 1 /\ wpc = "recreate" /\ jobs # <<>>

\* C5: jobs are recreated in the order of their acceptance: when the
\* recreation of a job has begun, the recreation of every job accepted
\* before it has begun.
C5_FifoOrder ==
    \A b \in started : \A a \in 1..(b - 1) : a \in started

\* C5 witness: two jobs accepted from different goroutines have both begun
\* their recreation and a third one waits.
C5_Witness ==
    /\ Cardinality(started) >= 2
    /\ jobs # <<>>

\* submitter s holds the mutex and waits for room in the full channel
BlockedOnSend(s) ==
    spc[s] = "send" /\ jobSetMux = {s} /\ Len(jobs) >= QueueCap

\* the worker waits for the mutex in cleanupJob
WaitsForMutex == wpc \in {"cleanup", "failed", "deferred"} /\ jobSetMux # {}

\* C13: the channel never holds more jobs than its capacity, and an AddJob
\* call whose key was accepted while the channel is full neither returns
\* nor loses its job: it stays at its send, with its job, while the channel
\* is full.
C13_FullQueueBlocks ==
    /\ [](Len(jobs) <= QueueCap)
    /\ [][\A s \in Submitters :
            (spc[s] = "send" /\ Len(jobs) >= QueueCap) =>
                (spc'[s] = "send" /\ sjob'[s] = sjob[s])]_vars

\* C13 witness: an accepted AddJob call waits at its send, the channel full.
C13_Witness ==
    \E s \in Submitters : BlockedOnSend(s) /\ sjob[s].id > 0

\* C14: the worker and a submitter never wait for each other: no AddJob call
\* holds the mutex at its send on the full channel while the worker, the
\* only receiver, waits for the mutex in cleanupJob (context not cancelled).
C14_NoMutualWait ==
    ~(\E s \in Submitters : BlockedOnSend(s) /\ WaitsForMutex /\ ~cancelled)

\* the key of the job the worker holds
WorkerKey == makeKey(wjob.containers)

\* C17: once the context is cancelled the worker begins no further
\* recreation, whatever waits in the channel.
C17_NoRecreationAfterCancel ==
    [][cancelled => started' = started]_vars

\* C18: after a successful recreation the worker is back at its select, and
\* takes the next job, only when the settle delay has elapsed or the context
\* is cancelled; after a failed recreation it has not waited at all.
C18_SettleDelayOnSuccessOnly ==
    /\ (wpc \in {"select", "recreate"} /\ outcome = "ok") =>
           (waited = RecreationDelay \/ cancelled)
    /\ outcome = "failed" => waited = 0

\* C18 witness: the worker recreates the next job after a successful
\* recreation and a full settle delay, the context not cancelled.
C18_Witness ==
    /\ wpc = "recreate" /\ outcome = "ok"
    /\ waited = RecreationDelay /\ ~cancelled

\* C19: the key of a job is out of the key set when the settle delay starts,
\* and when the worker leaves a failed recreation; an AddJob call with the
\* same container set made during the settle delay is rejected only when an
\* identical request was already accepted during that delay and is queued.
C19_KeyClearedBeforeSettle ==
    [][/\ (wpc # "settle" /\ wpc' = "settle") => WorkerKey \notin jobSet'
       /\ (wpc = "failed" /\ wpc' # "failed") => WorkerKey \notin jobSet'
       /\ \A s \in Submitters :
             ( /\ wpc = "settle"
               /\ spc[s] = "check" /\ spc'[s] = "idle"
               /\ makeKey(sjob[s].containers) = WorkerKey ) =>
                 \E j \in Range(jobs) :
                     makeKey(j.containers) = WorkerKey /\ j.id > wjob.id
      ]_vars

\* C19 witness: during the settle delay of a job a request with the same
\* container set has been accepted and is queued.
C19_Witness ==
    /\ wpc = "settle"
    /\ waited < RecreationDelay
    /\ \E j \in Range(jobs) :
          makeKey(j.containers) = WorkerKey /\ j.id > wjob.id

\* C20: a job whose recreation failed is not put back into the channel and
\* no job is recreated twice; when the worker leaves the failed recreation
\* the key is cleared and the worker is at its select for the next job.
C20_FailedJobNotRetried ==
    [][/\ (wpc = "failed" /\ wpc' # "failed") =>
             /\ wpc' = "select"
             /\ jobs' = jobs
             /\ WorkerKey \notin jobSet'
       /\ started' # started => wjob'.id \notin started
      ]_vars

\* C20 witness: after a failed recreation the worker recreates the job that
\* was queued behind the failed one.
C20_Witness ==
    /\ outcome = "failed"
    /\ wpc = "recreate"
    /\ Cardinality(started) >= 2

(***************************************************************************)
(* Part II: properties of the config mutator and of the handler pipeline   *)
(***************************************************************************)
\* the last operation was a call of the mutator named in C7: Env.UpdateEnvVars
\* or BaseHandler.UpdateServiceEnv
MutatorCall == last.op \in {"UpdateEnvVars", "UpdateServiceEnv"}

\* C6: handling a record identical to the record handled just before (that
\* run having returned no error) changes no environment key, makes every
\* mutator call of the run report changed=false and passes no job to AddJob.
C6_RepeatChangesNothing ==
    (last.op = "HandleMessage" /\ last.repeat /\ ~last.prevErr) =>
        /\ last.same
        /\ TRUE \notin Range(last.flags)
        /\ last.job = <<>>

\* C7: the mutator is idempotent: a call that repeats, with the same map,
\* the call made just before it, which reported changed=true, reports
\* changed=false, with the env-file backing and with the compose-file one.
C7_SecondCallReportsNoChange ==
    (MutatorCall /\ last.repeat /\ last.prevUpdated /\ ~last.err) =>
        ~last.updated

\* C8: an update call that finds no key of its map differing from the stored
\* value does not write the backing file at all, and the content of the
\* files after the call is their content before it.
C8_NoWriteWhenUnchanged ==
    (last.op # "none" /\ ~last.updated /\ ~last.err) =>
        (last.writes = 0 /\ last.same)

\* C9: when the explorer handler's batch update changes a variable, its
\* restart set is backend, frontend and stats, plus proxy exactly when both
\* the proxy service name and the proxy container name are configured; when
\* the batch changes nothing, the restart set is empty.
C9_ExplorerRestartSet ==
    (last.op = "ExplorerHandle" /\ ~last.err) =>
        Range(last.job) =
            IF last.updated
              THEN { Container("backend", "backend"),
                     Container("frontend", "frontend"),
                     Container("stats", "stats") }
                   \cup (IF proxyServiceName # "" /\ proxyContainerName # ""
                           THEN {Container(proxyContainerName,
                                           proxyServiceName)}
                           ELSE {})
              ELSE {}

\* C9 witness: the explorer handler's batch has changed a variable with the
\* proxy configured, and the restart set has its four containers.
C9_Witness ==
    /\ last.op = "ExplorerHandle" /\ last.updated
    /\ proxyServiceName # "" /\ proxyContainerName # ""
    /\ Len(last.job) = 4

\* C10: the pipeline runs the four handlers coin, image, name, explorer, in
\* this order, against every record, each exactly once, whether or not a
\* handler returns an error.
C10_AllHandlersRun ==
    last.op = "HandleMessage" =>
        last.invoked = <<"coin", "image", "name", "explorer">>

\* C11: for each record the pipeline calls AddJob at most once: with the
\* union of the containers the handlers returned when a handler returned
\* one, and not at all when the handlers returned none.
C11_SubmitsUnionOnce ==
    last.op = "HandleMessage" => Range(last.job) = Range(last.changed)

\* C12: when a handler returns an error after another handler has changed
\* configuration, the pipeline still passes the changed containers to
\* AddJob before it returns its error.
C12_ErrorKeepsRestart ==
    (last.op = "HandleMessage" /\ last.err /\ last.changed # <<>>) =>
        last.job # <<>>

(***************************************************************************)
(* Properties of Subscription.Subscribe                                    *)
(***************************************************************************)
\* the events of the realtime channel: the listener runs, the join message
\* is sent, a live event is handled
ChannelEvents == {"loop", "join", "live"}

\* C15: the initial check comes first: the reconciled row is handled (its
\* AddJob call included) before the listener goroutine starts, before the
\* join message is sent and before any live event is handled, and none of
\* these happens while InitialCheck has not returned.
C15_ReconcileBeforeChannel ==
    /\ \A i, j \in 1..Len(log) :
          (i < j /\ log[j] = "initial") => log[i] \notin ChannelEvents
    /\ (listening \/ Range(log) \cap ChannelEvents # {}) => checkPc = "done"

\* C15 witness: a row was reconciled, the join message was sent and a live
\* event was handled.
C15_Witness ==
    /\ {"initial", "join", "live"} \subseteq Range(log)
    /\ last.op = "HandleMessage"

\* C16: when InitialCheck fails (sql.Open, db.Query, rows.Scan or rows.Err),
\* Subscribe returns an error, the listener goroutine is not started, no
\* join message is sent and no live event is handled.
C16_FailedCheckFailsSubscribe ==
    checkErr # "none" =>
        /\ subRet = "error"
        /\ ~listening
        /\ Range(log) \cap ChannelEvents = {}

\* C16 witness: the iteration over the rows failed after a row was handled,
\* and Subscribe has returned its error.
C16_Witness ==
    /\ checkErr = "rows"
    /\ "initial" \in Range(log)
    /\ subRet = "error"

\* C21: the coin handler accepts a coin symbol exactly when it has between 1
\* and 20 characters: the empty symbol and every symbol of 21 or more
\* characters make it return an error before any update, every symbol of 1 to
\* 20 characters passes validation.
C21_AcceptsOneToTwentyChars ==
    (last.op = "CoinHandle") =>
        /\ validateCoin(last.arg.Coin) <=>
               RuneCount(last.arg.Coin) \notin 1..MaxCoinLength
        /\ validateCoin(last.arg.Coin) => (last.err /\ last.flags = <<>>)

\* the record has no light logo, no dark logo and no favicon
NoImage(record) ==
    /\ record.LightLogoURL = <<>>
    /\ record.DarkLogoURL = <<>>
    /\ record.FaviconURL = <<>>

\* C22: for a record whose light logo, dark logo and favicon are all empty
\* the image handler returns no error and an empty restart set, makes no
\* mutator call (so reads and writes no configuration) and leaves the files
\* as they were.
C22_NoImageNoOp ==
    (last.op = "ImageHandle" /\ NoImage(last.arg)) =>
        /\ ~last.err
        /\ last.job = <<>>
        /\ last.flags = <<>>
        /\ last.same

\* the image handler has handled a record without images while the store
\* held settings
C22_Witness ==
    /\ last.op = "ImageHandle" /\ NoImage(last.arg)
    /\ \/ envFile # <<>>
       \/ \E s \in ServiceNames : composeFile[s] # EmptyMap

\* submitter s is between the Lock and the Unlock of its AddJob call
InAddJobCritical(s) == spc[s] \in {"check", "insert", "send"}

ListsInUse ==
    ({sjob[s].containers : s \in Submitters}
        \cup {j.containers : j \in Range(jobs)} \cup {wjob.containers})
    \ {<<>>}

\* C24: the job key depends only on the set of container names: a list, its
\* permutations and the lists that repeat its entries have the same key, so
\* the lookup of AddJob gives the same answer for each of them.
C24_KeyOfNameSet ==
    \A a \in ListsInUse : \A b \in KeyInputs :
        Range(a) = Range(b) =>
            /\ makeKey(a) = makeKey(b)
            /\ makeKey(a) \in jobSet <=> makeKey(b) \in jobSet

\* C24 witness: a call is at its lookup and finds the key of a queued job
\* whose list has the same names in another order or number.
C24_Witness ==
    \E s \in Submitters : \E j \in Range(jobs) :
        /\ spc[s] = "check"
        /\ j.containers # sjob[s].containers
        /\ Range(j.containers) = Range(sjob[s].containers)
        /\ makeKey(sjob[s].containers) \in jobSet

\* the key->value map the store holds for a service: the environment of the
\* service in the compose file, or what ReadEnvFile reads from the env file
Stored(file, compose, path, serviceName) ==
    IF path = "" THEN compose[serviceName] ELSE ReadEnvFile(EmptyMap, file)

\* the map an update call recorded in r was given, and the service it named
\* (UpdateEnvVars names none: the env file is shared)
SuppliedMap(r) == IF r.op = "UpdateEnvVars" THEN r.arg ELSE r.arg[2]
SuppliedService(r) == IF r.op = "UpdateEnvVars" THEN "frontend" ELSE r.arg[1]

\* what C25 says of an update call with map m that found the store holding
\* `before`, left it holding `after` and returned `changed`
UpdatePostcondition(before, after, m, changed) ==
    /\ \A k \in DOMAIN m : k \in DOMAIN after /\ after[k] = m[k]
    /\ \A k \in DOMAIN before \ DOMAIN m :
          k \in DOMAIN after /\ after[k] = before[k]
    /\ changed <=> (Differing(before, m) # {})

\* C25: after an update call that returns no error, every key of the
\* supplied map holds the supplied value in the store, every other key holds
\* the value it held before the call, and changed is true exactly when some
\* key of the map was absent from the store or held another value.
C25_UpdatePostcondition ==
    [][(last'.op \in {"UpdateEnvVars", "UpdateServiceEnv"} /\ ~last'.err) =>
          UpdatePostcondition(
              Stored(envFile, composeFile, pathToEnvFile,
                     SuppliedService(last')),
              Stored(envFile', composeFile', pathToEnvFile,
                     SuppliedService(last')),
              SuppliedMap(last'), last'.updated)]_vars

\* the handler run recorded in r was given a record whose field fails the
\* handler's validation
FailsValidation(r) ==
    \/ r.op = "CoinHandle" /\ validateCoin(r.arg.Coin)
    \/ r.op = "NameHandle" /\ validateName(r.arg.Name)
    \/ r.op = "ExplorerHandle" /\ validateExplorerURL(r.arg.ExplorerURL)

\* the store holds settings
StoreHoldsSettings ==
    \/ envFile # <<>>
    \/ \E s \in ServiceNames : composeFile[s] # EmptyMap

\* C26: the coin, name and explorer handlers, given a record whose field
\* fails validation, return an error and an empty restart set, make no
\* mutator call (so read and write no configuration), and the files after
\* the call are the files before it.
C26_InvalidFieldLeavesStore ==
    FailsValidation(last) =>
        /\ last.err
        /\ last.job = <<>>
        /\ last.flags = <<>>
        /\ last.same

\* C26 witness: a handler has rejected a record while the store held
\* settings written by earlier calls.
C26_Witness == FailsValidation(last) /\ StoreHoldsSettings

\* the update u of the coin handler changed what the store holds for its
\* key: the key was absent from `before`, or holds another value in `after`
ChangedStored(before, after, u) ==
    \/ u.Key \notin DOMAIN before
    \/ after[u.Key] # before[u.Key]

\* what C27 says of a coin handler run that found the files env and compose,
\* left envAfter and composeAfter and returned the restart set `restart`
RestartIffChanged(env, compose, envAfter, composeAfter, path, record,
                  restart) ==
    \A i \in 1..Len(CoinUpdates(record)) :
        LET u == CoinUpdates(record)[i] IN
        (Container(u.ContainerName, u.ServiceName) \in Range(restart)) <=>
            ChangedStored(Stored(env, compose, path, u.ServiceName),
                          Stored(envAfter, composeAfter, path, u.ServiceName),
                          u)

\* C27: for a valid coin symbol, each of frontend, backend and stats is in
\* the coin handler's restart set exactly when the update of that unit's coin
\* variable changed the value the store holds; a unit whose variable already
\* held the symbol is not restarted.
C27_RestartIffChanged ==
    [][(last'.op = "CoinHandle" /\ ~validateCoin(last'.arg.Coin)
            /\ ~last'.err) =>
          RestartIffChanged(envFile, composeFile, envFile', composeFile',
                            pathToEnvFile, last'.arg, last'.job)]_vars

\* the frontend variable of each image field
ImageFieldKey ==
       ("LightLogoURL" :> "NEXT_PUBLIC_NETWORK_LOGO")
    @@ ("DarkLogoURL" :> "NEXT_PUBLIC_NETWORK_LOGO_DARK")
    @@ ("FaviconURL" :> "NEXT_PUBLIC_NETWORK_ICON")

\* the store holds the value of field f of the record in the frontend
\* variable of f
ImageApplied(record, f) ==
    LET held == Stored(envFile, composeFile, pathToEnvFile,
                       frontendServiceName)
    IN  ImageFieldKey[f] \in DOMAIN held /\ held[ImageFieldKey[f]] = record[f]

\* the image handler has just handled a record with an image field set
ImageHandled == last.op = "ImageHandle" /\ ~NoImage(last.arg)

\* C28: in the image handler a field that fails validation does not keep
\* the other fields from being applied: after the call every field that
\* passes validation is held by its own frontend variable, and the result
\* carries an error for each field that failed (the fields left empty are
\* the subject of C29).
C28_ValidFieldsAppliedErrorPerField ==
    ImageHandled =>
        \A f \in {g \in Range(ImageFieldOrder) : last.arg[g] # <<>>} :
            IF validateImage(last.arg[f])
              THEN last.err /\ ImageError(last.arg) = f
              ELSE ImageApplied(last.arg, f)

\* C29: when some image field is set, the image handler validates only the
\* fields that are set: with every set field valid, the fields left empty
\* are skipped and the handler reports no error.
C29_EmptyFieldSkipped ==
    ( /\ ImageHandled
      /\ \A f \in Range(ImageFieldOrder) :
            last.arg[f] # <<>> => ~validateImage(last.arg[f]) ) =>
        ~last.err

\* the message the listener read last is not a change event of the
\* configured table (it did not decode, is another event, or names another
\* table)
ReceivedForeign(r) ==
    /\ r # <<>>
    /\ ~( /\ r[1].ok
          /\ r[1].Event = "postgres_changes"
          /\ r[1].Table = ConfiguredTable )

\* C30: the receive loop hands a message to the pipeline only if its event
\* is postgres_changes and its table is the configured table: a step in
\* which the listener reads any other message writes no configuration file
\* and passes no job to AddJob.
C30_OnlyTableChangesDispatched ==
    [][ReceivedForeign(received') =>
          /\ UNCHANGED <<envFile, composeFile, last>>
          /\ UNCHANGED workerVars]_vars

\* C30 witness: the listener has read a change event of another table
\* after it had handled one of the configured table.
C30_Witness ==
    /\ ReceivedForeign(received)
    /\ received[1].Event = "postgres_changes"
    /\ last.op = "HandleMessage" /\ last.job # <<>>

\* C31: a failed read ends the listener for good: once a read has failed the
\* process has exited and the listener does not run, and from then on no
\* message is read, no configuration is written and no job is submitted;
\* a message that does not decode leaves the loop running.
C31_ReadFailureIsFinal ==
    /\ []("read error" \in Range(log) => (~listening /\ subRet = "exit"))
    /\ [][("read error" \in Range(log)) =>
            /\ received' = received
            /\ ~listening'
            /\ subRet' = "exit"
            /\ UNCHANGED pipeVars
            /\ UNCHANGED workerVars]_vars
    /\ [][(log' # log /\ log'[Len(log')] = "decode error") =>
            (listening' /\ subRet' = subRet)]_vars

\* C31 witness: a read has failed after an undecodable message was skipped
\* and a later change event of the table was handled.
C31_Witness ==
    /\ "read error" \in Range(log)
    /\ \E i, j \in 1..Len(log) :
          i < j /\ log[i] = "decode error" /\ log[j] = "live"
    /\ last.op = "HandleMessage"

\* C32: at most one record is in the handler pipeline at any time, the
\* initial check included: the listener does not run while InitialCheck
\* handles a row, the two goroutines are never both inside HandleMessage,
\* and the live records are handled in the order in which the transport
\* delivered them.
C32_OneRecordAtATime ==
    /\ ~(hpc["main"] # "idle" /\ hpc["listener"] # "idle")
    /\ hpc["main"] # "idle" => ~listening /\ nread = 0
    /\ LET dispatched == SelectSeq(SubSeq(sent, 1, nread), Dispatches)
       IN  /\ Len(handled) = Len(dispatched)
           /\ \A i \in 1..Len(handled) : handled[i] = dispatched[i].Record

\* C32 witness: the initial check has handled a row, and the listener is
\* rewriting the env file for the second of two change events
C32_Witness ==
    /\ "initial" \in Range(log)
    /\ Len(handled) = 2
    /\ handled[1] # handled[2]
    /\ hpc["listener"] = "writing"

\* C33: in the initial check a row that fails to scan, or whose pipeline run
\* fails, is skipped: the step leaves the row behind and InitialCheck and
\* Subscribe go on without an error.
C33_RowFailureSkipped ==
    [][( /\ checkPc = "rows" /\ rows # <<>>
         /\ \/ checkErr' = "scan"
            \/ last' # last /\ last'.err ) =>
          /\ rows' = Tail(rows)
          /\ checkErr' = "none"
          /\ subRet' = "none"]_vars

C35_KeyKeptUntilRecreated ==
    /\ [](/\ \A j \in Range(jobs) : makeKey(j.containers) \in jobSet
          /\ \A s \in Submitters :
                spc[s] = "send" => makeKey(sjob[s].containers) \in jobSet
          /\ wpc = "recreate" => WorkerKey \in jobSet)
    /\ [][\A j \in Range(jobs) :
            (j \in Range(jobs') /\ makeKey(j.containers) \in jobSet) =>
                makeKey(j.containers) \in jobSet']_vars

\* C36: for every record that both the name handler and the explorer
\* handler accept, the two handlers write the same value to
\* NEXT_PUBLIC_FEATURED_NETWORKS.
C36_SameFeaturedNetworks ==
    ( /\ last.op \in {"HandleMessage", "ExplorerHandle"}
      /\ ~validateName(last.arg.Name)
      /\ ~validateExplorerURL(last.arg.ExplorerURL) ) =>
        FeaturedNetworks(last.arg.Name, last.arg.ExplorerURL)
            = SidecarUpdates(last.arg)["NEXT_PUBLIC_FEATURED_NETWORKS"]

\* C37: a recreation never overlaps a write of the env file: while the
\* worker is inside RecreateContainers, no goroutine is between the
\* truncation of the env file and the end of its rewrite.
C37_NoWriteDuringRecreate ==
    wpc = "recreate" => \A g \in {"main", "listener"} : hpc[g] # "writing"

\* C38: the writes on the realtime connection are never concurrent: at most
\* one goroutine is inside a WriteJSON on it at any time.
C38_OneWriterOnConn == Cardinality(connWriters) <= 1

\* C39: a change event of the table whose record has an empty name, coin,
\* images and explorer URL changes no configuration file and submits no
\* job.
C39_EmptyRecordNoOp ==
    [][( /\ received' # <<>>
         /\ Dispatches(received'[1])
         /\ received'[1].Record = EmptyRecord
       ) =>
          /\ UNCHANGED <<envFile, composeFile>>
          /\ last'.job = <<>>
          /\ UNCHANGED workerVars]_vars

\* C39 witness: the pipeline has run for an empty record after an earlier
\* record had filled the env file and had a job submitted.
C39_Witness ==
    /\ last.op = "HandleMessage"
    /\ last.arg = EmptyRecord
    /\ last.prevUpdated
    /\ envFile # <<>>
    /\ received # <<>> /\ Dispatches(received[1])

====
